---- MODULE Spec2Model ----
(***************************************************************************)
(* Postify: the background distribution jobs of routes/posts.py and        *)
(* routes/subscribers.py, run on one cooperative (asyncio) event loop.     *)
(*                                                                         *)
(* One action is one uninterrupted run of a coroutine: the code between    *)
(* two suspension points of the background task (await asyncio.sleep and   *)
(* the await inside send_to_whatsapp), or one request handler.  Every      *)
(* state of the model is therefore a state in which another task, such as  *)
(* a status query, can run.                                                *)
(***************************************************************************)
EXTENDS Integers, Sequences, FiniteSets, TLC

\* ------------------------------------------------------------------ bounds
\* Number of job ids uuid4() can hand out (jobs created in one behaviour).
MaxJobs == 2
\* Longest recipient list a repository returns.
MaxRecipients == 2

\* --------------------------------------------------------- program constants
\* random.randint(30, 300) of _process_distribution
UserDelayMin == 30
UserDelayMax == 300
\* random.randint(240, 480) of _process_subscriber_distribution
SubscriberDelayMin == 240
SubscriberDelayMax == 480

VARIABLES
    distribution_jobs,             \* posts.py: distribution_jobs = {}
    subscriber_distribution_jobs,  \* subscribers.py: subscriber_distribution_jobs = {}
    tasks,                         \* the background tasks, by job id: locals and position
    response,                      \* what the step just taken sent back to its HTTP caller
    handler_calls                  \* the collaborator calls the request handler just run made

vars == <<distribution_jobs, subscriber_distribution_jobs, tasks, response, handler_calls>>

JobIds == 1..MaxJobs

\* ------------------------------------------------------------ python values
None == "None"
\* datetime.now().isoformat() at the named point of a run: the clock has moved on
\* between the creation of a job and its completion
Timestamp(at) == <<"isoformat", at>>

\* d[k] = v on a dict
set_item(d, k, v) == [x \in (DOMAIN d) \cup {k} |-> IF x = k THEN v ELSE d[x]]

\* mutant: the upper end is taken as exclusive of one more (a..b+1)
randint_past_end(a, b) == {a, b + 1}

\* random.randint(a, b): the ends of the inclusive range a..b
randint(a, b) == {a, b}

\* --------------------------------------------------------------- recipients
\* A stored document of the users / subscribers collection: its _id, name and phone.
Recipient(i) == [id |-> i, name |-> <<"name", i>>, phone |-> <<"+91", i>>]

RecipientIds == 1..MaxRecipients

\* The lists get_all_raw() can return: any of the stored documents, in the
\* collection's natural order (ascending _id), no document twice.
RecipientLists ==
    { s \in UNION { [1..n -> { Recipient(i) : i \in RecipientIds }] : n \in 0..MaxRecipients } :
        \A a, b \in DOMAIN s : a < b => s[a].id < s[b].id }

\* -------------------------------------------------------------- collaborators
\* Replies of the text model: response.text parses as JSON or not, and the two keys.
\* The code reads the caption with .get("caption", "") and hands it on without ever
\* looking at it, so in the concurrent runs one caption stands for all of them.
TextReplies ==
    { [parseable |-> FALSE, prompt |-> "", caption |-> ""],
      [parseable |-> TRUE, prompt |-> "", caption |-> "caption"],
      [parseable |-> TRUE, prompt |-> "prompt", caption |-> "caption"] }

\* Every reply of the text model, the one with a prompt and no caption included.
AnyTextReplies ==
    TextReplies \cup { [parseable |-> TRUE, prompt |-> "prompt", caption |-> ""] }

\* Replies of the image model: with or without an inline image part.
ImageReplies == { [has_image |-> TRUE], [has_image |-> FALSE] }

\* Outcomes of http_client.post(SEND_MEDIA_URL, json=payload, timeout=60.0): no
\* response within the timeout (httpx raises), or a response with its status code
\* and the JSON body the webhook sent with it.
WebhookOutcomes ==
    { [timed_out |-> TRUE, status_code |-> 0, json |-> None],
      [timed_out |-> FALSE, status_code |-> 200, json |-> "api_res"],
      [timed_out |-> FALSE, status_code |-> 500, json |-> "error_res"] }

\* send_to_whatsapp: the exception of the post leaves the function, any response
\* that arrives is returned as response.json() whatever its status code
send_to_whatsapp(outcome) ==
    IF outcome.timed_out
    THEN [raised |-> TRUE, value |-> "delivery error"]
    ELSE [raised |-> FALSE, value |-> outcome.json]

\* What await send_to_whatsapp(...) gives its caller.
SendOutcomes == { send_to_whatsapp(outcome) : outcome \in WebhookOutcomes }

\* parse_csv_for_today() / get_holiday_with_description_for_today()
HolidayLookups == { None, "Holiday" }

generate_structured_output(reply) ==
    IF reply.parseable
    THEN [raised |-> FALSE, value |-> [prompt |-> reply.prompt, caption |-> reply.caption]]
    ELSE [raised |-> TRUE, value |-> "Failed to parse Gemini response as JSON"]

generate_image(reply) ==
    IF reply.has_image
    THEN [raised |-> FALSE, value |-> "base_image"]
    ELSE [raised |-> TRUE, value |-> "No image generated by Gemini"]


\* ------------------------------------------------------------- job records
\* mutant: the record starts as pending, to be set running by the task
new_distribution_job_pending(holiday, users) ==
    [status |-> "pending", holiday |-> holiday, total_users |-> Len(users),
     processed |-> 0, successful |-> 0, failed |-> 0,
     started_at |-> Timestamp("created"), results |-> <<>>]

\* posts.py: the record distribute_holiday_post stores under the new job id
new_distribution_job(holiday, users) ==
    [status |-> "running", holiday |-> holiday, total_users |-> Len(users),
     processed |-> 0, successful |-> 0, failed |-> 0,
     started_at |-> Timestamp("created"), results |-> <<>>]

\* subscribers.py: the record distribute_to_subscribers stores under the new job id
new_subscriber_job(holiday, subscribers) ==
    [status |-> "running", holiday |-> holiday, total_subscribers |-> Len(subscribers),
     processed |-> 0, successful |-> 0, failed |-> 0,
     started_at |-> Timestamp("created"), results |-> <<>>]

\* subscribers.py: the record distribute_to_single_subscriber stores ("total_subscribers": 1)
new_single_subscriber_job(holiday) ==
    [status |-> "running", holiday |-> holiday, total_subscribers |-> 1,
     processed |-> 0, successful |-> 0, failed |-> 0,
     started_at |-> Timestamp("created"), results |-> <<>>]

\* mutant: the handler awaits the orchestrator instead of scheduling it: when the
\* handler's step ends the task is already in its first delivery
new_task_awaited(fn, users, caption, base_image, events) ==
    [fn |-> fn, pc |-> IF users = <<>> THEN "done" ELSE "sending", users |-> users,
     index |-> 0, caption |-> caption, base_image |-> base_image, delay_seconds |-> None,
     events |-> IF users = <<>>
                THEN events
                ELSE Append(events, [op |-> "send_to_whatsapp", index |-> 0,
                                     phone |-> users[1].phone, caption |-> caption,
                                     base_image |-> base_image])]

\* The locals of a background task and where it is suspended.
\*   pc: "scheduled" (add_task done, not yet started), "sleeping" (in asyncio.sleep),
\*       "sending" (in the await of send_to_whatsapp), "done" (returned)
\*   index: the position of enumerate(users), 0-based as in the code
\*   delay_seconds: the duration being slept (None when not sleeping)
\*   events: the collaborator calls and sleeps this run has made, in order
new_task(fn, users, caption, base_image, events) ==
    [fn |-> fn, pc |-> "scheduled", users |-> users, index |-> 0,
     caption |-> caption, base_image |-> base_image,
     delay_seconds |-> None, events |-> events]

\* A call of a collaborator, with how it ended (r: what the call returned or raised).
TextCall(r) == [op |-> "generate_structured_output", raised |-> r.raised,
                prompt |-> IF r.raised THEN None ELSE r.value.prompt,
                caption |-> IF r.raised THEN None ELSE r.value.caption]
ImageCall(r) == [op |-> "generate_image", raised |-> r.raised]
SleepCall(index) == [op |-> "sleep", index |-> index]
SendCall(task, index) ==
    [op |-> "send_to_whatsapp", index |-> index, phone |-> task.users[index + 1].phone,
     caption |-> task.caption, base_image |-> task.base_image]

\* mutant: the wait is time.sleep(delay_seconds), which returns only when the time
\* is over without giving the event loop a turn: the task goes straight into its send
time_sleep(task, delay_seconds) ==
    [task EXCEPT !.pc = "sending",
                 !.events = @ \o <<SleepCall(task.index), SendCall(task, task.index)>>]

\* await asyncio.sleep(delay_seconds): the task is suspended in the wait
asyncio_sleep(task, delay_seconds) ==
    [task EXCEPT !.pc = "sleeping",
                 !.delay_seconds = delay_seconds,
                 !.events = Append(@, SleepCall(task.index))]

\* -------------------------------------------- posts.py: _process_distribution
\* mutant: a loop in which no delivery succeeded ends the job as failed
user_completed_unless_none_sent(job) ==
    IF job.successful = 0
    THEN set_item(set_item(job, "status", "failed"), "error", <<"No delivery succeeded">>)
    ELSE set_item(set_item(job, "status", "completed"), "completed_at", Timestamp("completed"))

\* mutant: the success result is put at the head of the list (insert(0, ...))
user_success_prepend(job, user, api_res) ==
    [job EXCEPT !.results = <<[user_id |-> user.id, phone |-> user.phone,
                               success |-> TRUE, api_response |-> api_res]>> \o @,
                !.successful = @ + 1]

\* try-branch after the send returned: results.append({... "success": True ...}); successful += 1
user_success(job, user, api_res) ==
    [job EXCEPT !.results = Append(@, [user_id |-> user.id, phone |-> user.phone,
                                       success |-> TRUE, api_response |-> api_res]),
                !.successful = @ + 1]

\* mutant: the except branch appends the failure result but does not count it
user_failure_uncounted(job, user, e) ==
    [job EXCEPT !.results = Append(@, [user_id |-> user.id, phone |-> user.phone,
                                       success |-> FALSE, error |-> e])]

\* except Exception as e: results.append({... "success": False, "error": str(e)}); failed += 1
user_failure(job, user, e) ==
    [job EXCEPT !.results = Append(@, [user_id |-> user.id, phone |-> user.phone,
                                       success |-> FALSE, error |-> e]),
                !.failed = @ + 1]

\* job["processed"] += 1
user_processed(job) == [job EXCEPT !.processed = @ + 1]

\* mutant: completion is marked from inside the loop, on the last user, so never for no user
user_completed_in_loop(job) ==
    IF job.processed > 0
    THEN set_item(set_item(job, "status", "completed"), "completed_at", Timestamp("completed"))
    ELSE job

\* mutant: the completion time is stored under "started_at"
user_completed_restamps_start(job) ==
    set_item(set_item(job, "status", "completed"), "started_at", Timestamp("completed"))

\* job["status"] = "completed"; job["completed_at"] = datetime.now().isoformat()
user_completed(job) == set_item(set_item(job, "status", "completed"), "completed_at", Timestamp("completed"))

\* mutant: the wait is never taken
user_needs_delay_never(index) == FALSE

\* if index > 0: (wait before sending, except first user)
user_needs_delay(index) == index > 0

\* mutant: the loop stops one user short
users_exhausted_one_short(task) == task.index + 1 >= Len(task.users)

\* for index, user in enumerate(users): the list is exhausted
users_exhausted(task) == task.index >= Len(task.users)

\* mutant: the wait comes before the image is built, so a later user whose image
\* cannot be built has the delay awaited for them all the same
RECURSIVE process_distribution_from_wait_first(_, _, _, _)
process_distribution_from_wait_first(job, task, overlay_ok, delay_seconds) ==
    IF users_exhausted(task)
    THEN [job |-> user_completed(job), task |-> [task EXCEPT !.pc = "done"]]
    ELSE IF user_needs_delay(task.index)
    THEN [job |-> job, task |-> asyncio_sleep(task, delay_seconds)]
    ELSE IF ~overlay_ok[task.index + 1]
    THEN process_distribution_from_wait_first(
             user_processed(user_failure(job, task.users[task.index + 1], "compositing error")),
             [task EXCEPT !.index = @ + 1], overlay_ok, delay_seconds)
    ELSE [job |-> job,
          task |-> [task EXCEPT !.pc = "sending",
                                !.events = Append(@, SendCall(task, task.index))]]

\* The loop from the top of iteration task.index up to the next await, or to the
\* end of the function.  overlay_ok[i] says whether building recipient i's image
\* (footer, overlay_images, image_to_base64) returns rather than raises.
RECURSIVE process_distribution_from(_, _, _, _)
process_distribution_from(job, task, overlay_ok, delay_seconds) ==
    IF users_exhausted(task)
    THEN [job |-> user_completed(job), task |-> [task EXCEPT !.pc = "done"]]
    ELSE LET index == task.index
             user == task.users[index + 1]
         IN  IF ~overlay_ok[index + 1]
             THEN process_distribution_from(
                      user_processed(user_failure(job, user, "compositing error")),
                      [task EXCEPT !.index = index + 1], overlay_ok, delay_seconds)
             ELSE IF user_needs_delay(index)
             THEN [job |-> job, task |-> asyncio_sleep(task, delay_seconds)]
             ELSE [job |-> job,
                   task |-> [task EXCEPT !.pc = "sending",
                                         !.events = Append(@, SendCall(task, index))]]

\* asyncio.sleep returned: the task goes on into send_to_whatsapp and suspends there
process_distribution_wake(job, task) ==
    [job |-> job,
     task |-> [task EXCEPT !.pc = "sending", !.delay_seconds = None,
                           !.events = Append(@, SendCall(task, task.index))]]

\* mutant: an exception of send_to_whatsapp ends the loop instead of being recorded per user
process_distribution_sent_abort(job, task, outcome, overlay_ok, delay_seconds) ==
    LET user == task.users[task.index + 1]
    IN  IF outcome.raised
        THEN [job |-> user_completed(user_processed(user_failure(job, user, outcome.value))),
              task |-> [task EXCEPT !.pc = "done", !.index = @ + 1]]
        ELSE process_distribution_from(
                 user_processed(user_success(job, user, outcome.value)),
                 [task EXCEPT !.index = @ + 1], overlay_ok, delay_seconds)

\* mutant: a delivery that raised is tried again (the index does not advance)
process_distribution_sent_retry(job, task, outcome, overlay_ok, delay_seconds) ==
    LET user == task.users[task.index + 1]
    IN  IF outcome.raised
        THEN [job |-> job,
              task |-> [task EXCEPT !.events = Append(@, SendCall(task, task.index))]]
        ELSE process_distribution_from(
                 user_processed(user_success(job, user, outcome.value)),
                 [task EXCEPT !.index = @ + 1], overlay_ok, delay_seconds)

\* send_to_whatsapp returned or raised: record the result, count, go on with the loop
process_distribution_sent(job, task, outcome, overlay_ok, delay_seconds) ==
    LET user == task.users[task.index + 1]
        recorded == IF outcome.raised
                    THEN user_failure(job, user, outcome.value)
                    ELSE user_success(job, user, outcome.value)
    IN  process_distribution_from(user_processed(recorded),
                                  [task EXCEPT !.index = @ + 1],
                                  overlay_ok, delay_seconds)


\* ------------------------------- subscribers.py: _process_subscriber_distribution
\* mutant: the success branch counts a failure
subscriber_success_miscounted(job, subscriber, api_res) ==
    [job EXCEPT !.results = Append(@, [subscriber_id |-> subscriber.id,
                                       name |-> subscriber.name,
                                       phone |-> subscriber.phone,
                                       success |-> TRUE, api_response |-> api_res]),
                !.failed = @ + 1]

\* results.append({... "success": True, "api_response": api_res}); successful += 1
subscriber_success(job, subscriber, api_res) ==
    [job EXCEPT !.results = Append(@, [subscriber_id |-> subscriber.id,
                                       name |-> subscriber.name,
                                       phone |-> subscriber.phone,
                                       success |-> TRUE, api_response |-> api_res]),
                !.successful = @ + 1]

\* mutant: the except branch counts the subscriber as processed itself, so twice in all
subscriber_failure_double_count(job, subscriber, e) ==
    [job EXCEPT !.results = Append(@, [subscriber_id |-> subscriber.id,
                                       name |-> subscriber.name,
                                       phone |-> subscriber.phone,
                                       success |-> FALSE, error |-> e]),
                !.failed = @ + 1,
                !.processed = @ + 1]

\* except Exception as e: results.append({... "success": False, "error": str(e)}); failed += 1
subscriber_failure(job, subscriber, e) ==
    [job EXCEPT !.results = Append(@, [subscriber_id |-> subscriber.id,
                                       name |-> subscriber.name,
                                       phone |-> subscriber.phone,
                                       success |-> FALSE, error |-> e]),
                !.failed = @ + 1]

\* job["processed"] += 1
subscriber_processed(job) == [job EXCEPT !.processed = @ + 1]

\* mutant: the function returns after the loop without marking the job
subscriber_completed_forgotten(job) == job

\* job["status"] = "completed"; job["completed_at"] = datetime.now().isoformat()
subscriber_completed(job) ==
    set_item(set_item(job, "status", "completed"), "completed_at", Timestamp("completed"))

\* mutant: the failure is marked but its message is not recorded
subscriber_generation_failed_no_error(job, message) == set_item(job, "status", "failed")

\* job["status"] = "failed"; job["error"] = ... (message: the pieces of the text, in order)
subscriber_generation_failed(job, message) ==
    set_item(set_item(job, "status", "failed"), "error", message)

\* mutant: the wait is taken before the first subscriber too
subscriber_needs_delay_always(index) == index >= 0

\* if index > 0: (wait before sending, except first subscriber)
subscriber_needs_delay(index) == index > 0

\* for index, subscriber in enumerate(subscribers): the list is exhausted
subscribers_exhausted(task) == task.index >= Len(task.users)

\* The loop from the top of iteration task.index up to the next await, or to the
\* end of the function.  overlay_ok[i] says whether building recipient i's image
\* (b64decode, overlay_subscriber_image, image_to_base64) returns rather than raises.
RECURSIVE process_subscriber_distribution_from(_, _, _, _)
process_subscriber_distribution_from(job, task, overlay_ok, delay_seconds) ==
    IF subscribers_exhausted(task)
    THEN [job |-> subscriber_completed(job), task |-> [task EXCEPT !.pc = "done"]]
    ELSE LET index == task.index
             subscriber == task.users[index + 1]
         IN  IF ~overlay_ok[index + 1]
             THEN process_subscriber_distribution_from(
                      subscriber_processed(subscriber_failure(job, subscriber, "compositing error")),
                      [task EXCEPT !.index = index + 1], overlay_ok, delay_seconds)
             ELSE IF subscriber_needs_delay(index)
             THEN [job |-> job, task |-> asyncio_sleep(task, delay_seconds)]
             ELSE [job |-> job,
                   task |-> [task EXCEPT !.pc = "sending",
                                         !.events = Append(@, SendCall(task, index))]]

\* mutant: the return after a generation failure is missing, the loop runs all the same
process_subscriber_distribution_start_no_return(job, task, text_reply, image_reply, overlay_ok, delay_seconds) ==
    LET structured_output == generate_structured_output(text_reply)
        image == generate_image(image_reply)
        called == [task EXCEPT !.events = @ \o <<TextCall(structured_output), ImageCall(image)>>]
        ok == ~structured_output.raised /\ structured_output.value.prompt # "" /\ ~image.raised
    IN  process_subscriber_distribution_from(
            IF ok THEN job ELSE subscriber_generation_failed(job, <<"Failed to generate image prompt">>),
            IF ok THEN [called EXCEPT !.caption = structured_output.value.caption,
                                      !.base_image = image.value]
                  ELSE called,
            overlay_ok, delay_seconds)

\* The task's first run: generate the content, then enter the loop.
process_subscriber_distribution_start(job, task, text_reply, image_reply, overlay_ok, delay_seconds) ==
    LET structured_output == generate_structured_output(text_reply)
        image == generate_image(image_reply)
        text_called == [task EXCEPT !.events = Append(@, TextCall(structured_output))]
        image_called == [text_called EXCEPT !.events = Append(@, ImageCall(image))]
    IN  IF structured_output.raised
        THEN [job |-> subscriber_generation_failed(
                          job, <<"Image generation failed: ", structured_output.value>>),
              task |-> [text_called EXCEPT !.pc = "done"]]
        ELSE IF structured_output.value.prompt = ""
        THEN [job |-> subscriber_generation_failed(job, <<"Failed to generate image prompt">>),
              task |-> [text_called EXCEPT !.pc = "done"]]
        ELSE IF image.raised
        THEN [job |-> subscriber_generation_failed(
                          job, <<"Image generation failed: ", image.value>>),
              task |-> [image_called EXCEPT !.pc = "done"]]
        ELSE process_subscriber_distribution_from(
                 job,
                 [image_called EXCEPT !.caption = structured_output.value.caption,
                                      !.base_image = image.value],
                 overlay_ok, delay_seconds)

\* mutant: the content is generated inside the loop, again for each later recipient
process_subscriber_distribution_wake_regenerate(job, task) ==
    LET structured_output ==
            generate_structured_output(
                [parseable |-> TRUE, prompt |-> "prompt", caption |-> task.caption])
        image == generate_image([has_image |-> TRUE])
    IN  [job |-> job,
         task |-> [task EXCEPT !.pc = "sending", !.delay_seconds = None,
                               !.events = @ \o <<TextCall(structured_output), ImageCall(image),
                                                 SendCall(task, task.index)>>]]

\* asyncio.sleep returned: the task goes on into send_to_whatsapp and suspends there
process_subscriber_distribution_wake(job, task) ==
    [job |-> job,
     task |-> [task EXCEPT !.pc = "sending", !.delay_seconds = None,
                           !.events = Append(@, SendCall(task, task.index))]]

\* mutant: the loop body has no try/except, an exception of send_to_whatsapp leaves the task
process_subscriber_distribution_sent_uncaught(job, task, outcome, overlay_ok, delay_seconds) ==
    LET subscriber == task.users[task.index + 1]
    IN  IF outcome.raised
        THEN [job |-> job, task |-> [task EXCEPT !.pc = "done"]]
        ELSE process_subscriber_distribution_from(
                 subscriber_processed(subscriber_success(job, subscriber, outcome.value)),
                 [task EXCEPT !.index = @ + 1], overlay_ok, delay_seconds)

\* send_to_whatsapp returned or raised: record the result, count, go on with the loop
process_subscriber_distribution_sent(job, task, outcome, overlay_ok, delay_seconds) ==
    LET subscriber == task.users[task.index + 1]
        recorded == IF outcome.raised
                    THEN subscriber_failure(job, subscriber, outcome.value)
                    ELSE subscriber_success(job, subscriber, outcome.value)
    IN  process_subscriber_distribution_from(subscriber_processed(recorded),
                                             [task EXCEPT !.index = @ + 1],
                                             overlay_ok, delay_seconds)


\* -------------------------------------------------------------- the event loop
NoResponse == [endpoint |-> None, status_code |-> 0, body |-> None]

\* a handler's return value, sent as 200
Reply(endpoint, body) == [endpoint |-> endpoint, status_code |-> 200, body |-> body]

\* raise HTTPException(status_code, detail), or an exception leaving the handler (500)
HTTPException(endpoint, status_code, detail) ==
    [endpoint |-> endpoint, status_code |-> status_code, body |-> [detail |-> detail]]

\* The ids no job has yet.
FreshIds == JobIds \ DOMAIN tasks

\* mutant: the id is not random but the same for every job
uuid4_fixed == CHOOSE id \in JobIds : \A other \in JobIds : id <= other

\* str(uuid.uuid4()): an id no job has yet.  Ids are opaque tokens, so which unused
\* one is drawn makes no difference: the least one stands for all of them.
uuid4 == CHOOSE id \in FreshIds : \A other \in FreshIds : id <= other

\* Whether building the image succeeds, for each recipient the loop has yet to reach.
OverlayOutcomes(task, from) == [(from + 1)..Len(task.users) -> BOOLEAN]

Init ==
    /\ distribution_jobs = <<>>
    /\ subscriber_distribution_jobs = <<>>
    /\ tasks = <<>>
    /\ response = NoResponse
    /\ handler_calls = <<>>

\* mutant: the check of the list is missing
no_recipients_unchecked(recipients) == FALSE

\* "if not users:" / "if not subscribers:"
no_recipients(recipients) == recipients = <<>>

\* POST /distribute-holiday-post, the text model answering with one of replies
DistributeHolidayPostOn(replies) ==
    LET endpoint == "/distribute-holiday-post"
        refused(r, calls) ==
            /\ response' = r
            /\ handler_calls' = calls
            /\ UNCHANGED <<distribution_jobs, subscriber_distribution_jobs, tasks>>
    IN  \E holiday \in HolidayLookups :
        IF holiday = None
        THEN refused(Reply(endpoint, [status |-> "error",
                                      message |-> "No holiday found for today"]), <<>>)
        ELSE \E users \in RecipientLists :
        IF no_recipients(users)
        THEN refused(Reply(endpoint, [status |-> "error",
                                      message |-> "No users found in database"]), <<>>)
        ELSE \E text_reply \in replies :
        LET structured_output == generate_structured_output(text_reply) IN
        IF structured_output.raised
        THEN refused(HTTPException(endpoint, 500, structured_output.value),
                     <<TextCall(structured_output)>>)
        ELSE IF structured_output.value.prompt = ""
        THEN refused(HTTPException(endpoint, 500, "Failed to generate image prompt"),
                     <<TextCall(structured_output)>>)
        ELSE \E image_reply \in ImageReplies :
        LET image == generate_image(image_reply) IN
        IF image.raised
        THEN refused(HTTPException(endpoint, 500, image.value),
                     <<TextCall(structured_output), ImageCall(image)>>)
        ELSE /\ FreshIds # {}
             /\ LET job_id == uuid4 IN
                /\ distribution_jobs' =
                       set_item(distribution_jobs, job_id, new_distribution_job(holiday, users))
                /\ tasks' = set_item(tasks, job_id,
                                new_task("_process_distribution", users,
                                         structured_output.value.caption, image.value,
                                         <<TextCall(structured_output), ImageCall(image)>>))
                /\ response' = Reply(endpoint, [status |-> "started", job_id |-> job_id,
                                                holiday |-> holiday,
                                                total_users |-> Len(users)])
                /\ handler_calls' = <<TextCall(structured_output), ImageCall(image)>>
                /\ UNCHANGED subscriber_distribution_jobs

DistributeHolidayPost == DistributeHolidayPostOn(TextReplies)

\* the background task _process_distribution(job_id, ...) runs up to its first await
ProcessDistributionStart(job_id) ==
    /\ job_id \in DOMAIN distribution_jobs
    /\ tasks[job_id].pc = "scheduled"
    /\ \E overlay_ok \in OverlayOutcomes(tasks[job_id], 0),
          delay_seconds \in randint(UserDelayMin, UserDelayMax) :
            LET r == process_distribution_from(distribution_jobs[job_id], tasks[job_id],
                                               overlay_ok, delay_seconds)
            IN  /\ distribution_jobs' = [distribution_jobs EXCEPT ![job_id] = r.job]
                /\ tasks' = [tasks EXCEPT ![job_id] = r.task]
    /\ response' = NoResponse
    /\ handler_calls' = <<>>
    /\ UNCHANGED subscriber_distribution_jobs

\* await asyncio.sleep(delay_seconds) returns
ProcessDistributionWake(job_id) ==
    /\ job_id \in DOMAIN distribution_jobs
    /\ tasks[job_id].pc = "sleeping"
    /\ LET r == process_distribution_wake(distribution_jobs[job_id], tasks[job_id])
       IN  /\ distribution_jobs' = [distribution_jobs EXCEPT ![job_id] = r.job]
           /\ tasks' = [tasks EXCEPT ![job_id] = r.task]
    /\ response' = NoResponse
    /\ handler_calls' = <<>>
    /\ UNCHANGED subscriber_distribution_jobs

\* mutant: the records are copies of one template and share its results list, so
\* what one task appends shows in every record
ProcessDistributionSent_shared_results(job_id) ==
    /\ job_id \in DOMAIN distribution_jobs
    /\ tasks[job_id].pc = "sending"
    /\ \E outcome \in SendOutcomes,
          overlay_ok \in OverlayOutcomes(tasks[job_id], tasks[job_id].index + 1),
          delay_seconds \in randint(UserDelayMin, UserDelayMax) :
            LET r == process_distribution_sent(distribution_jobs[job_id], tasks[job_id],
                                               outcome, overlay_ok, delay_seconds)
            IN  /\ distribution_jobs' =
                       [k \in DOMAIN distribution_jobs |->
                           IF k = job_id
                           THEN r.job
                           ELSE [distribution_jobs[k] EXCEPT !.results = r.job.results]]
                /\ tasks' = [tasks EXCEPT ![job_id] = r.task]
    /\ response' = NoResponse
    /\ handler_calls' = <<>>
    /\ UNCHANGED subscriber_distribution_jobs

\* await send_to_whatsapp(...) returns or raises
ProcessDistributionSent(job_id) ==
    /\ job_id \in DOMAIN distribution_jobs
    /\ tasks[job_id].pc = "sending"
    /\ \E outcome \in SendOutcomes,
          overlay_ok \in OverlayOutcomes(tasks[job_id], tasks[job_id].index + 1),
          delay_seconds \in randint(UserDelayMin, UserDelayMax) :
            LET r == process_distribution_sent(distribution_jobs[job_id], tasks[job_id],
                                               outcome, overlay_ok, delay_seconds)
            IN  /\ distribution_jobs' = [distribution_jobs EXCEPT ![job_id] = r.job]
                /\ tasks' = [tasks EXCEPT ![job_id] = r.task]
    /\ response' = NoResponse
    /\ handler_calls' = <<>>
    /\ UNCHANGED subscriber_distribution_jobs

\* mutant: the lookup is distribution_jobs.get(job_id), which answers None for an unknown id
get_distribution_status_get(job_id) ==
    Reply("/distribution-status",
          IF job_id \in DOMAIN distribution_jobs
          THEN distribution_jobs[job_id]
          ELSE [status |-> None])

\* GET /distribution-status/{job_id}
get_distribution_status(job_id) ==
    IF job_id \notin DOMAIN distribution_jobs
    THEN HTTPException("/distribution-status", 404, "Job not found")
    ELSE Reply("/distribution-status", distribution_jobs[job_id])

GetDistributionStatus ==
    \E job_id \in JobIds :
        /\ response' = get_distribution_status(job_id)
        /\ handler_calls' = <<>>
        /\ UNCHANGED <<distribution_jobs, subscriber_distribution_jobs, tasks>>


\* POST /subscriber/distribute
DistributeToSubscribers ==
    LET endpoint == "/subscriber/distribute"
        refused(r) == /\ response' = r
                      /\ handler_calls' = <<>>
                      /\ UNCHANGED <<distribution_jobs, subscriber_distribution_jobs, tasks>>
    IN  \E holiday \in HolidayLookups :
        IF holiday = None
        THEN refused(Reply(endpoint, [status |-> "error",
                                      message |-> "No holiday found for today"]))
        ELSE \E subscribers \in RecipientLists :
        IF no_recipients(subscribers)
        THEN refused(Reply(endpoint, [status |-> "error",
                                      message |-> "No subscribers found in database"]))
        ELSE /\ FreshIds # {}
             /\ LET job_id == uuid4 IN
                /\ subscriber_distribution_jobs' =
                       set_item(subscriber_distribution_jobs, job_id,
                                new_subscriber_job(holiday, subscribers))
                /\ tasks' = set_item(tasks, job_id,
                                new_task("_process_subscriber_distribution", subscribers,
                                         None, None, <<>>))
                /\ response' = Reply(endpoint, [status |-> "started", job_id |-> job_id,
                                                holiday |-> holiday,
                                                total_subscribers |-> Len(subscribers)])
                /\ handler_calls' = <<>>
                /\ UNCHANGED distribution_jobs

\* POST /subscriber/distribute/{subscriber_id}
\* found: the documents with that _id (find_one returns the one there is, or None)
DistributeToSingleSubscriber ==
    LET endpoint == "/subscriber/distribute/{subscriber_id}"
        refused(r) == /\ response' = r
                      /\ handler_calls' = <<>>
                      /\ UNCHANGED <<distribution_jobs, subscriber_distribution_jobs, tasks>>
    IN  \E holiday \in HolidayLookups :
        IF holiday = None
        THEN refused(Reply(endpoint, [status |-> "error",
                                      message |-> "No holiday found for today"]))
        ELSE \E found \in {<<>>} \cup { <<Recipient(i)>> : i \in RecipientIds } :
        IF found = <<>>
        THEN refused(HTTPException(endpoint, 404, "Subscriber not found"))
        ELSE /\ FreshIds # {}
             /\ LET job_id == uuid4 IN
                /\ subscriber_distribution_jobs' =
                       set_item(subscriber_distribution_jobs, job_id,
                                new_single_subscriber_job(holiday))
                /\ tasks' = set_item(tasks, job_id,
                                new_task("_process_subscriber_distribution", <<found[1]>>,
                                         None, None, <<>>))
                /\ response' = Reply(endpoint, [status |-> "started", job_id |-> job_id,
                                                holiday |-> holiday,
                                                subscriber_id |-> found[1].id])
                /\ handler_calls' = <<>>
                /\ UNCHANGED distribution_jobs

\* the background task _process_subscriber_distribution(job_id, ...) runs up to its
\* first await, the text model answering with one of replies
ProcessSubscriberDistributionStartOn(job_id, replies) ==
    /\ job_id \in DOMAIN subscriber_distribution_jobs
    /\ tasks[job_id].pc = "scheduled"
    /\ \E text_reply \in replies, image_reply \in ImageReplies,
          overlay_ok \in OverlayOutcomes(tasks[job_id], 0),
          delay_seconds \in randint(SubscriberDelayMin, SubscriberDelayMax) :
            LET r == process_subscriber_distribution_start(
                         subscriber_distribution_jobs[job_id], tasks[job_id],
                         text_reply, image_reply, overlay_ok, delay_seconds)
            IN  /\ subscriber_distribution_jobs' =
                       [subscriber_distribution_jobs EXCEPT ![job_id] = r.job]
                /\ tasks' = [tasks EXCEPT ![job_id] = r.task]
    /\ response' = NoResponse
    /\ handler_calls' = <<>>
    /\ UNCHANGED distribution_jobs

ProcessSubscriberDistributionStart(job_id) ==
    ProcessSubscriberDistributionStartOn(job_id, TextReplies)

\* await asyncio.sleep(delay_seconds) returns
ProcessSubscriberDistributionWake(job_id) ==
    /\ job_id \in DOMAIN subscriber_distribution_jobs
    /\ tasks[job_id].pc = "sleeping"
    /\ LET r == process_subscriber_distribution_wake(
                    subscriber_distribution_jobs[job_id], tasks[job_id])
       IN  /\ subscriber_distribution_jobs' =
                  [subscriber_distribution_jobs EXCEPT ![job_id] = r.job]
           /\ tasks' = [tasks EXCEPT ![job_id] = r.task]
    /\ response' = NoResponse
    /\ handler_calls' = <<>>
    /\ UNCHANGED distribution_jobs

\* await send_to_whatsapp(...) returns or raises
ProcessSubscriberDistributionSent(job_id) ==
    /\ job_id \in DOMAIN subscriber_distribution_jobs
    /\ tasks[job_id].pc = "sending"
    /\ \E outcome \in SendOutcomes,
          overlay_ok \in OverlayOutcomes(tasks[job_id], tasks[job_id].index + 1),
          delay_seconds \in randint(SubscriberDelayMin, SubscriberDelayMax) :
            LET r == process_subscriber_distribution_sent(
                         subscriber_distribution_jobs[job_id], tasks[job_id],
                         outcome, overlay_ok, delay_seconds)
            IN  /\ subscriber_distribution_jobs' =
                       [subscriber_distribution_jobs EXCEPT ![job_id] = r.job]
                /\ tasks' = [tasks EXCEPT ![job_id] = r.task]
    /\ response' = NoResponse
    /\ handler_calls' = <<>>
    /\ UNCHANGED distribution_jobs

\* mutant: there is one registry for both surfaces, the lookup finds jobs of either
get_subscriber_distribution_status_shared(job_id) ==
    IF job_id \notin DOMAIN tasks
    THEN HTTPException("/subscriber/distribution-status", 404, "Job not found")
    ELSE Reply("/subscriber/distribution-status",
               IF job_id \in DOMAIN distribution_jobs
               THEN distribution_jobs[job_id]
               ELSE subscriber_distribution_jobs[job_id])

\* GET /subscriber/distribution-status/{job_id}
get_subscriber_distribution_status(job_id) ==
    IF job_id \notin DOMAIN subscriber_distribution_jobs
    THEN HTTPException("/subscriber/distribution-status", 404, "Job not found")
    ELSE Reply("/subscriber/distribution-status", subscriber_distribution_jobs[job_id])

GetSubscriberDistributionStatus ==
    \E job_id \in JobIds :
        /\ response' = get_subscriber_distribution_status(job_id)
        /\ handler_calls' = <<>>
        /\ UNCHANGED <<distribution_jobs, subscriber_distribution_jobs, tasks>>

Next ==
    \/ DistributeHolidayPost
    \/ \E job_id \in JobIds : ProcessDistributionStart(job_id)
    \/ \E job_id \in JobIds : ProcessDistributionWake(job_id)
    \/ \E job_id \in JobIds : ProcessDistributionSent(job_id)
    \/ GetDistributionStatus
    \/ DistributeToSubscribers
    \/ DistributeToSingleSubscriber
    \/ \E job_id \in JobIds : ProcessSubscriberDistributionStart(job_id)
    \/ \E job_id \in JobIds : ProcessSubscriberDistributionWake(job_id)
    \/ \E job_id \in JobIds : ProcessSubscriberDistributionSent(job_id)
    \/ GetSubscriberDistributionStatus

Spec == Init /\ [][Next]_vars

\* One step of the background task of a job.
TaskStep(job_id) ==
    \/ ProcessDistributionStart(job_id)
    \/ ProcessDistributionWake(job_id)
    \/ ProcessDistributionSent(job_id)
    \/ ProcessSubscriberDistributionStart(job_id)
    \/ ProcessSubscriberDistributionWake(job_id)
    \/ ProcessSubscriberDistributionSent(job_id)

\* ------------------------------------------------- the orchestrators on their own
\* The two background functions as any caller may start them: on any recipient
\* list, the empty one included, the job record already stored by the caller.
\* (The three handlers above answer an empty list themselves and start nothing.)
OrchestratorCalls ==
    { [fn |-> fn, users |-> users] :
        fn \in {"_process_distribution", "_process_subscriber_distribution"},
        users \in RecipientLists }

\* the task of a call: _process_distribution is handed the base image and the
\* caption, _process_subscriber_distribution generates them itself
scheduled_call(call) ==
    IF call.fn = "_process_distribution"
    THEN new_task(call.fn, call.users, "caption", "base_image", <<>>)
    ELSE new_task(call.fn, call.users, None, None, <<>>)

OrchestratorInit ==
    \E n \in 0..MaxJobs : \E calls \in [1..n -> OrchestratorCalls] :
        /\ tasks = [j \in 1..n |-> scheduled_call(calls[j])]
        /\ distribution_jobs =
               [j \in { i \in 1..n : calls[i].fn = "_process_distribution" } |->
                   new_distribution_job("Holiday", calls[j].users)]
        /\ subscriber_distribution_jobs =
               [j \in { i \in 1..n : calls[i].fn = "_process_subscriber_distribution" } |->
                   new_subscriber_job("Holiday", calls[j].users)]
        /\ response = NoResponse
        /\ handler_calls = <<>>

OrchestratorNext ==
    \/ \E job_id \in JobIds : ProcessDistributionStart(job_id)
    \/ \E job_id \in JobIds : ProcessDistributionWake(job_id)
    \/ \E job_id \in JobIds : ProcessDistributionSent(job_id)
    \/ GetDistributionStatus
    \/ \E job_id \in JobIds : ProcessSubscriberDistributionStart(job_id)
    \/ \E job_id \in JobIds : ProcessSubscriberDistributionWake(job_id)
    \/ \E job_id \in JobIds : ProcessSubscriberDistributionSent(job_id)
    \/ GetSubscriberDistributionStatus

OrchestratorSpec == OrchestratorInit /\ [][OrchestratorNext]_vars

\* The event loop runs every task that is ready: a scheduled task is started, a
\* delay elapses (asyncio.sleep returns), and the webhook call returns or raises
\* (httpx timeout=60).  Status queries may stop coming at any time.
FairOrchestratorSpec ==
    OrchestratorSpec /\ \A job_id \in JobIds : WF_vars(TaskStep(job_id))

\* --------------------------------------------------- POST /generate-post
\* The holiday query parameter: absent (None) or a holiday name.
HolidayParams == { None, "Override" }

\* The call generate_post makes to the webhook, for the phone of the request.
GeneratePostSend(caption, base_image) ==
    [op |-> "send_to_whatsapp", index |-> 0, phone |-> <<"+91", 0>>,
     caption |-> caption, base_image |-> base_image]

\* models.GeneratePostResponse
GeneratePostResponse(success, holiday, caption, message) ==
    [success |-> success, holiday |-> holiday, caption |-> caption, message |-> message]

\* mutant: the holiday is looked up only after the content has been generated
generate_post_lookup_last(holiday_param, lookup, text_reply, image_reply, overlay_ok, outcome) ==
    LET structured_output == generate_structured_output(text_reply)
        image == generate_image(image_reply)
    IN  [response |-> HTTPException("/generate-post", 404,
                         "No holiday found for today and no holiday parameter provided"),
         calls |-> <<TextCall(structured_output), ImageCall(image)>>]

\* generate_post, from the request to the response.  The handler has locals only:
\* what other tasks do while it awaits send_to_whatsapp changes nothing it reads or
\* writes, so its two halves are taken as one step.
generate_post(holiday_param, lookup, text_reply, image_reply, overlay_ok, outcome) ==
    LET endpoint == "/generate-post"
        holiday == IF holiday_param # None THEN holiday_param ELSE lookup
        structured_output == generate_structured_output(text_reply)
        image == generate_image(image_reply)
        caption == structured_output.value.caption
        sent == send_to_whatsapp(outcome)
        text_called == <<TextCall(structured_output)>>
        image_called == Append(text_called, ImageCall(image))
    IN  IF holiday = None
        THEN [response |-> HTTPException(endpoint, 404,
                               "No holiday found for today and no holiday parameter provided"),
              calls |-> <<>>]
        ELSE IF structured_output.raised
        THEN [response |-> HTTPException(endpoint, 500, structured_output.value),
              calls |-> text_called]
        ELSE IF structured_output.value.prompt = ""
        THEN [response |-> HTTPException(endpoint, 500, "Failed to generate image prompt"),
              calls |-> text_called]
        ELSE IF image.raised
        THEN [response |-> HTTPException(endpoint, 500, image.value),
              calls |-> image_called]
        ELSE IF ~overlay_ok
        THEN [response |-> HTTPException(endpoint, 500, "Internal Server Error"),
              calls |-> image_called]
        ELSE [response |->
                  Reply(endpoint,
                        IF sent.raised
                        THEN GeneratePostResponse(FALSE, holiday, caption,
                                                  "Post generated but failed to send")
                        ELSE GeneratePostResponse(TRUE, holiday, caption,
                                                  "Post generated and sent successfully")),
              calls |-> Append(image_called, GeneratePostSend(caption, image.value))]

\* POST /generate-post
GeneratePost ==
    \E holiday_param \in HolidayParams, lookup \in HolidayLookups,
       text_reply \in AnyTextReplies, image_reply \in ImageReplies,
       overlay_ok \in BOOLEAN, outcome \in WebhookOutcomes :
        LET r == generate_post(holiday_param, lookup, text_reply, image_reply,
                               overlay_ok, outcome)
        IN  /\ response' = r.response
            /\ handler_calls' = r.calls
            /\ UNCHANGED <<distribution_jobs, subscriber_distribution_jobs, tasks>>

\* ------------------------------------------- subscriber and holiday records
\* A call a handler makes, with how it ended: PIL's Image.open on the upload, or a
\* write of a repository.
ImageOpen(valid_image) == [op |-> "Image.open", raised |-> ~valid_image]
RepositoryWrite(op, ok) == [op |-> op, raised |-> ~ok]

\* POST /addsubscriber (app.py).  The HTTPException(400) of the inner except is an
\* Exception: the outer "except Exception" catches it and raises a 500 whose
\* detail is str() of the 400.
add_subscriber(mongo_uri, valid_image, insert_ok) ==
    LET endpoint == "/addsubscriber"
        opened == <<ImageOpen(valid_image)>>
        inserted == Append(opened, RepositoryWrite("collection.insert_one", insert_ok))
    IN  IF ~mongo_uri
        THEN [response |-> HTTPException(endpoint, 500, "MONGO_URI not configured"),
              calls |-> <<>>]
        ELSE IF ~valid_image
        THEN [response |-> HTTPException(endpoint, 500, "400: Invalid image file"),
              calls |-> opened]
        ELSE IF ~insert_ok
        THEN [response |-> HTTPException(endpoint, 500, "insert error"),
              calls |-> inserted]
        ELSE [response |-> Reply(endpoint, [status |-> "success",
                                            message |-> "Subscriber added successfully"]),
              calls |-> inserted]

\* POST /subscriber (subscribers.py): "except HTTPException: raise" lets the 400 out
create_subscriber(mongo_uri, valid_image, create_ok) ==
    LET endpoint == "/subscriber"
        opened == <<ImageOpen(valid_image)>>
        created == Append(opened, RepositoryWrite("SubscriberRepository.create", create_ok))
    IN  IF ~mongo_uri
        THEN [response |-> HTTPException(endpoint, 500, "MONGO_URI not configured"),
              calls |-> <<>>]
        ELSE IF ~valid_image
        THEN [response |-> HTTPException(endpoint, 400, "Invalid image file"),
              calls |-> opened]
        ELSE IF ~create_ok
        THEN [response |-> HTTPException(endpoint, 500, "create error"),
              calls |-> created]
        ELSE [response |-> Reply(endpoint, [status |-> "success",
                                            message |-> "Subscriber created successfully"]),
              calls |-> created]

\* PUT /subscriber/{subscriber_id}: overlay says whether a file came with the request
update_subscriber(overlay, valid_image, update_ok) ==
    LET endpoint == "/subscriber/{subscriber_id}"
        opened == IF overlay THEN <<ImageOpen(valid_image)>> ELSE <<>>
        updated == Append(opened, RepositoryWrite("SubscriberRepository.update", update_ok))
    IN  IF overlay /\ ~valid_image
        THEN [response |-> HTTPException(endpoint, 400, "Invalid image file"),
              calls |-> opened]
        ELSE IF ~update_ok
        THEN [response |-> HTTPException(endpoint, 500, "Internal Server Error"),
              calls |-> updated]
        ELSE [response |-> Reply(endpoint, [status |-> "success"]), calls |-> updated]

\* The fields of models.schemas.HolidayUpdate, each optional.
HolidayFields == {"date", "prompt", "description"}

\* PUT /holidays/{holiday_id}: provided is the set of fields that are not None
update_holiday(provided, update_ok) ==
    LET endpoint == "/holidays/{holiday_id}"
        updated == <<RepositoryWrite("HolidayRepository.update", update_ok)>>
    IN  IF provided = {}
        THEN [response |-> HTTPException(endpoint, 400, "No fields provided for update"),
              calls |-> <<>>]
        ELSE IF ~update_ok
        THEN [response |-> HTTPException(endpoint, 500, "Internal Server Error"),
              calls |-> updated]
        ELSE [response |-> Reply(endpoint, [status |-> "success"]), calls |-> updated]

\* POST /addsubscriber
AddSubscriber ==
    \E mongo_uri, valid_image, insert_ok \in BOOLEAN :
        LET r == add_subscriber(mongo_uri, valid_image, insert_ok)
        IN  /\ response' = r.response
            /\ handler_calls' = r.calls
            /\ UNCHANGED <<distribution_jobs, subscriber_distribution_jobs, tasks>>

\* POST /subscriber
CreateSubscriber ==
    \E mongo_uri, valid_image, create_ok \in BOOLEAN :
        LET r == create_subscriber(mongo_uri, valid_image, create_ok)
        IN  /\ response' = r.response
            /\ handler_calls' = r.calls
            /\ UNCHANGED <<distribution_jobs, subscriber_distribution_jobs, tasks>>

\* PUT /subscriber/{subscriber_id}
UpdateSubscriber ==
    \E overlay, valid_image, update_ok \in BOOLEAN :
        LET r == update_subscriber(overlay, valid_image, update_ok)
        IN  /\ response' = r.response
            /\ handler_calls' = r.calls
            /\ UNCHANGED <<distribution_jobs, subscriber_distribution_jobs, tasks>>

\* PUT /holidays/{holiday_id}
UpdateHoliday ==
    \E provided \in SUBSET HolidayFields, update_ok \in BOOLEAN :
        LET r == update_holiday(provided, update_ok)
        IN  /\ response' = r.response
            /\ handler_calls' = r.calls
            /\ UNCHANGED <<distribution_jobs, subscriber_distribution_jobs, tasks>>

\* ------------------------------------------------------- one run at a time
\* The requests on a server that runs a single distribution, with every reply the
\* text model can give: no distribution has been requested yet.
Idle == tasks = <<>>

FirstDistributeHolidayPost == Idle /\ DistributeHolidayPostOn(AnyTextReplies)

FirstDistributeToSubscribers == Idle /\ DistributeToSubscribers

FirstDistributeToSingleSubscriber == Idle /\ DistributeToSingleSubscriber

RequestNext ==
    \/ GeneratePost
    \/ AddSubscriber
    \/ CreateSubscriber
    \/ UpdateSubscriber
    \/ UpdateHoliday
    \/ FirstDistributeHolidayPost
    \/ FirstDistributeToSubscribers
    \/ FirstDistributeToSingleSubscriber
    \/ \E job_id \in JobIds : ProcessDistributionStart(job_id)
    \/ \E job_id \in JobIds : ProcessDistributionWake(job_id)
    \/ \E job_id \in JobIds : ProcessDistributionSent(job_id)
    \/ \E job_id \in JobIds : ProcessSubscriberDistributionStartOn(job_id, AnyTextReplies)
    \/ \E job_id \in JobIds : ProcessSubscriberDistributionWake(job_id)
    \/ \E job_id \in JobIds : ProcessSubscriberDistributionSent(job_id)

RequestSpec == Init /\ [][RequestNext]_vars

\* One step of the background task of a job, under RequestNext.
RequestTaskStep(job_id) ==
    \/ ProcessDistributionStart(job_id)
    \/ ProcessDistributionWake(job_id)
    \/ ProcessDistributionSent(job_id)
    \/ ProcessSubscriberDistributionStartOn(job_id, AnyTextReplies)
    \/ ProcessSubscriberDistributionWake(job_id)
    \/ ProcessSubscriberDistributionSent(job_id)

\* BackgroundTasks runs the scheduled function once the response has been sent, and
\* the event loop then runs the task whenever it is ready (see FairOrchestratorSpec).
FairRequestSpec ==
    RequestSpec /\ \A job_id \in JobIds : WF_vars(RequestTaskStep(job_id))


\* ===================================================================== claims
\* Every job of either registry, and the fields the two registries name differently.
AllJobs == DOMAIN tasks

JobOf(job_id) ==
    IF job_id \in DOMAIN distribution_jobs
    THEN distribution_jobs[job_id]
    ELSE subscriber_distribution_jobs[job_id]

Total(job) ==
    IF "total_users" \in DOMAIN job THEN job.total_users ELSE job.total_subscribers

ResultId(r) == IF "user_id" \in DOMAIN r THEN r.user_id ELSE r.subscriber_id

Indices(seq, P(_)) == { i \in DOMAIN seq : P(seq[i]) }

IsSleep(e) == e.op = "sleep"
IsSend(e) == e.op = "send_to_whatsapp"
Succeeded(r) == r.success
Failed(r) == ~r.success

\* The task is suspended inside the loop, or has left it.
InLoop(t) == t.pc \in {"sleeping", "sending"}

\* C1: for every job of either registry, in every state in which a status query
\* can run, processed == successful + failed == len(results).
C1_CountsAgree ==
    \A j \in AllJobs :
        /\ JobOf(j).processed = JobOf(j).successful + JobOf(j).failed
        /\ JobOf(j).processed = Len(JobOf(j).results)

\* a query can see a job mid-run with one failure counted, another job already finished
C1_Witness ==
    \E j, k \in AllJobs :
        /\ JobOf(j).status = "running" /\ JobOf(j).processed = 1 /\ JobOf(j).failed = 1
        /\ InLoop(tasks[j])
        /\ JobOf(k).status = "completed" /\ JobOf(k).successful = 1 /\ JobOf(k).failed = 1

\* C2: status is always running, completed or failed; it only ever changes from
\* running to completed or from running to failed; a completed or failed record
\* never changes again; the record becomes completed only when the loop has gone
\* through the whole list and failed only on a generation error before the loop;
\* a running job's task is never taken away.
C2_StatusTransitions ==
    [][\A j \in AllJobs :
        LET old == JobOf(j)
            new == JobOf(j)'
            t   == tasks'[j]
        IN  /\ new.status \in {"running", "completed", "failed"}
            /\ old.status # new.status =>
                   old.status = "running" /\ new.status \in {"completed", "failed"}
            /\ old.status # "running" => new = old /\ t = tasks[j]
            /\ (old.status = "running" /\ new.status = "completed") =>
                   t.pc = "done" /\ t.index = Len(t.users)
            /\ (old.status = "running" /\ new.status = "failed") =>
                   /\ t.pc = "done" /\ t.index = 0
                   /\ \A i \in DOMAIN t.events : ~IsSend(t.events[i]) /\ ~IsSleep(t.events[i])
            /\ new.status = "running" => t.pc # "done"
      ]_vars

\* one job ended completed and another ended failed
C2_Witness ==
    \E j, k \in AllJobs :
        /\ JobOf(j).status = "completed" /\ JobOf(j).processed = 2
        /\ JobOf(k).status = "failed"

\* C3: a delivery failure does not stop the loop.  While the task is inside the
\* loop it stands at the recipient after all the processed ones, whatever their
\* results were, and it leaves the loop only when every recipient has a result:
\* each one either had its delivery attempted or failed while its image was built.
C3_FailureDoesNotStopLoop ==
    \A j \in AllJobs :
        LET job == JobOf(j)
            t   == tasks[j]
            attempted == { t.events[i].index : i \in Indices(t.events, IsSend) }
        IN  /\ InLoop(t) => job.processed = t.index /\ t.index < Len(t.users)
            /\ (t.pc = "done" /\ job.status # "failed") =>
                   /\ job.processed = Len(t.users)
                   /\ \A i \in 1..Len(t.users) :
                          \/ (i - 1) \in attempted
                          \/ Failed(job.results[i]) /\ job.results[i].error = "compositing error"

\* the delivery to the first of two recipients failed, and the second was still delivered
C3_Witness ==
    \E j \in AllJobs :
        /\ tasks[j].pc = "done" /\ Len(tasks[j].users) = 2 /\ Len(JobOf(j).results) = 2
        /\ ~JobOf(j).results[1].success /\ JobOf(j).results[1].error = "delivery error"
        /\ JobOf(j).results[2].success

\* The content generation of the run failed: the text call raised or gave an empty
\* prompt, or the image call raised.
GenerationFailed(t) ==
    \E i \in DOMAIN t.events :
        \/ /\ t.events[i].op = "generate_structured_output"
           /\ (t.events[i].raised \/ t.events[i].prompt = "")
        \/ /\ t.events[i].op = "generate_image"
           /\ t.events[i].raised

\* The record of a run that failed before the loop.
FailedBeforeLoop(job, t) ==
    /\ job.status = "failed"
    /\ "error" \in DOMAIN job
    /\ job.processed = 0
    /\ job.results = <<>>
    /\ t.pc = "done"
    /\ \A i \in DOMAIN t.events : ~IsSend(t.events[i]) /\ ~IsSleep(t.events[i])

UserGenerationRefused(r) ==
    r.endpoint = "/distribute-holiday-post" /\ r.status_code = 500

\* C4 as stated: in both distributions a generation failure on a non-empty list
\* ends in a job with status failed, an error, processed 0 and no results.
C4_Original ==
    /\ \A j \in AllJobs :
           (tasks[j].pc # "scheduled" /\ GenerationFailed(tasks[j])) =>
               FailedBeforeLoop(JobOf(j), tasks[j])
    /\ UserGenerationRefused(response) =>
           \E j \in DOMAIN distribution_jobs :
               FailedBeforeLoop(distribution_jobs[j], tasks[j])

\* C4 (amended): in the subscriber distribution a generation failure ends the job
\* with status failed, an error recorded, processed 0, no results and no delivery
\* attempted; in the user distribution the content is generated before the job
\* exists, and a generation failure is answered with a 500 that creates no job
\* and starts no task.
C4_GenerationFailure ==
    /\ [](\A j \in AllJobs :
            (tasks[j].pc # "scheduled" /\ GenerationFailed(tasks[j])) =>
                /\ j \in DOMAIN subscriber_distribution_jobs
                /\ Len(tasks[j].users) >= 1
                /\ FailedBeforeLoop(JobOf(j), tasks[j]))
    /\ [][UserGenerationRefused(response') =>
              UNCHANGED <<distribution_jobs, subscriber_distribution_jobs, tasks>>]_vars

\* a subscriber job has failed on its generation, and a user distribution was refused
C4_Witness ==
    /\ \E j \in AllJobs : GenerationFailed(tasks[j]) /\ JobOf(j).status = "failed"
    /\ UserGenerationRefused(response)

\* C5: whenever a job's status is completed, processed and len(results) equal
\* the total recorded when the job was created.
C5_CompletedMeansAllProcessed ==
    \A j \in AllJobs :
        JobOf(j).status = "completed" =>
            /\ JobOf(j).processed = Total(JobOf(j))
            /\ Len(JobOf(j).results) = Total(JobOf(j))

\* a user job over two recipients and a subscriber job over one have completed
C5_Witness ==
    /\ \E j \in DOMAIN distribution_jobs :
           distribution_jobs[j].status = "completed" /\ distribution_jobs[j].total_users = 2
    /\ \E j \in DOMAIN subscriber_distribution_jobs :
           /\ subscriber_distribution_jobs[j].status = "completed"
           /\ subscriber_distribution_jobs[j].total_subscribers = 1

\* C6: from one state to the next processed, successful and failed never decrease;
\* processed grows by exactly the number of recipients the step went through,
\* one per recipient whether it succeeded or failed, and never exceeds the number
\* of recipients iterated so far.
C6_CountersMonotonic ==
    [][\A j \in AllJobs' :
        LET new == JobOf(j)'
            t   == tasks'[j]
            old == IF j \in AllJobs THEN JobOf(j) ELSE [new EXCEPT !.processed = 0,
                                                                  !.successful = 0,
                                                                  !.failed = 0]
            old_index == IF j \in AllJobs THEN tasks[j].index ELSE 0
        IN  /\ new.processed >= old.processed
            /\ new.successful >= old.successful
            /\ new.failed >= old.failed
            /\ new.processed - old.processed = t.index - old_index
            /\ (new.successful - old.successful) + (new.failed - old.failed)
                   = t.index - old_index
            /\ new.processed <= t.index
      ]_vars

\* a job is waiting in its delay with one recipient counted
C6_Witness ==
    \E j \in AllJobs :
        /\ tasks[j].pc = "sleeping"
        /\ JobOf(j).processed = 1 /\ JobOf(j).successful = 1 /\ JobOf(j).failed = 0

\* C7: results holds exactly one entry per recipient gone through, in list order:
\* entry i carries the id and phone of recipient i of the task's list, and a step
\* only ever appends to results.
C7_ResultsFollowRecipients ==
    [][\A j \in AllJobs' :
        LET new == JobOf(j)'.results
            t   == tasks'[j]
            old == IF j \in AllJobs THEN JobOf(j).results ELSE <<>>
        IN  /\ Len(new) = t.index
            /\ Len(new) <= Len(t.users)
            /\ Len(old) <= Len(new)
            /\ \A i \in 1..Len(old) : new[i] = old[i]
            /\ \A i \in 1..Len(new) :
                   /\ ResultId(new[i]) = t.users[i].id
                   /\ new[i].phone = t.users[i].phone
            /\ t.users = IF j \in AllJobs THEN tasks[j].users ELSE t.users
      ]_vars

\* a user job has two results, for two different recipients, the second one last
C7_Witness ==
    \E j \in DOMAIN distribution_jobs :
        LET r == distribution_jobs[j].results
        IN  /\ Len(r) = 2
            /\ r[1].user_id = tasks[j].users[1].id
            /\ r[2].user_id = tasks[j].users[2].id
            /\ r[1].user_id # r[2].user_id
            /\ r[1].success /\ ~r[2].success

\* The JSON bodies a webhook response can carry.
WebhookReplies == { o.json : o \in { w \in WebhookOutcomes : ~w.timed_out } }

\* C8: successful counts the entries of results with success true and failed
\* those with success false; a success entry carries the webhook's response and
\* no error, a failure entry the text of the error and no api_response.
C8_CountsMatchResults ==
    \A j \in AllJobs :
        LET job == JobOf(j)
            t   == tasks[j]
            attempted == { t.events[i].index : i \in Indices(t.events, IsSend) }
        IN  /\ job.successful = Cardinality(Indices(job.results, Succeeded))
            /\ job.failed = Cardinality(Indices(job.results, Failed))
            /\ \A i \in DOMAIN job.results :
                   LET r == job.results[i]
                   IN  IF r.success
                       THEN /\ "api_response" \in DOMAIN r
                            /\ "error" \notin DOMAIN r
                            /\ r.api_response \in WebhookReplies
                            /\ (i - 1) \in attempted
                       ELSE /\ "error" \in DOMAIN r
                            /\ "api_response" \notin DOMAIN r
                            /\ r.error = IF (i - 1) \in attempted
                                         THEN "delivery error"
                                         ELSE "compositing error"

\* a subscriber job holds a success entry and a failure entry
C8_Witness ==
    \E j \in DOMAIN subscriber_distribution_jobs :
        LET job == subscriber_distribution_jobs[j]
        IN  /\ job.successful = 1 /\ job.failed = 1
            /\ \E i, k \in DOMAIN job.results :
                   job.results[i].success /\ ~job.results[k].success

Sleeps(t) == Cardinality(Indices(t.events, IsSleep))

\* C9 as stated: a loop that ran to completion over N >= 1 recipients has awaited
\* the delay exactly N-1 times, whatever the outcomes were.
C9_Original ==
    \A j \in AllJobs :
        (JobOf(j).status = "completed" /\ Len(tasks[j].users) >= 1) =>
            Sleeps(tasks[j]) = Len(tasks[j].users) - 1

\* C9 (amended): a loop that ran to completion has awaited the delay once for
\* every recipient at index > 0 whose image was built, and not for a recipient
\* whose image building raised: N-1 times when no image building after the first
\* recipient fails, whatever the delivery outcomes were.
C9_DelaysAwaited ==
    \A j \in AllJobs :
        LET job == JobOf(j)
            t   == tasks[j]
            built == { i \in 2..Len(job.results) :
                           job.results[i].success
                           \/ job.results[i].error # "compositing error" }
        IN  (job.status = "completed" /\ Len(t.users) >= 1) =>
                /\ Sleeps(t) = Cardinality(built)
                /\ Sleeps(t) <= Len(t.users) - 1
                /\ (\A i \in 2..Len(job.results) : i \in built) =>
                       Sleeps(t) = Len(t.users) - 1

\* two recipients, both deliveries failed, one delay awaited
C9_Witness ==
    \E j \in AllJobs :
        /\ JobOf(j).status = "completed" /\ Len(tasks[j].users) = 2
        /\ JobOf(j).failed = 2
        /\ \A i \in 1..2 : JobOf(j).results[i].error = "delivery error"
        /\ Sleeps(tasks[j]) = 1

\* C10: no delay is awaited for the recipient at index 0, so a run over one
\* recipient never sleeps; the delivery call for a recipient at index i > 0 comes
\* right after that recipient's own delay, and while the task is in a delay the
\* delivery for that recipient has not been called.
C10_NoDelayBeforeFirst ==
    \A j \in AllJobs :
        LET t == tasks[j]
            e == t.events
        IN  /\ \A p \in DOMAIN e : IsSleep(e[p]) => e[p].index > 0
            /\ Len(t.users) = 1 => Sleeps(t) = 0 /\ t.pc # "sleeping"
            /\ \A p \in DOMAIN e :
                   (IsSend(e[p]) /\ e[p].index > 0) =>
                       p > 1 /\ e[p - 1] = SleepCall(e[p].index)
            /\ t.pc = "sleeping" =>
                   /\ t.index > 0
                   /\ e[Len(e)] = SleepCall(t.index)
            /\ t.pc = "sending" => IsSend(e[Len(e)]) /\ e[Len(e)].index = t.index

\* a single-subscriber run has finished, and another job has delivered to its second recipient
C10_Witness ==
    /\ \E j \in DOMAIN subscriber_distribution_jobs :
           /\ Len(tasks[j].users) = 1 /\ tasks[j].pc = "done"
           /\ subscriber_distribution_jobs[j].processed = 1
    /\ \E k \in AllJobs :
           \E p \in DOMAIN tasks[k].events :
               IsSend(tasks[k].events[p]) /\ tasks[k].events[p].index = 1

\* C11: every delay a task is waiting in is a whole number of seconds inside the
\* inclusive window of its orchestrator: 30..300 for _process_distribution and
\* 240..480 for _process_subscriber_distribution.
C11_DelayWithinWindow ==
    \A j \in AllJobs :
        LET t == tasks[j]
        IN  t.pc = "sleeping" =>
                /\ t.fn = "_process_distribution" =>
                       t.delay_seconds \in Int /\ 30 <= t.delay_seconds /\ t.delay_seconds <= 300
                /\ t.fn = "_process_subscriber_distribution" =>
                       t.delay_seconds \in Int /\ 240 <= t.delay_seconds /\ t.delay_seconds <= 480

\* a user task waits the longest delay of its window, a subscriber task the shortest of its own
C11_Witness ==
    \E j, k \in AllJobs :
        /\ tasks[j].fn = "_process_distribution"
        /\ tasks[j].pc = "sleeping" /\ tasks[j].delay_seconds = 300
        /\ tasks[k].fn = "_process_subscriber_distribution"
        /\ tasks[k].pc = "sleeping" /\ tasks[k].delay_seconds = 240

\* The record shows nothing processed.
NothingProcessed(job) ==
    /\ job.processed = 0 /\ job.successful = 0 /\ job.failed = 0
    /\ job.results = <<>>

Started(r) ==
    /\ r.endpoint \in {"/distribute-holiday-post", "/subscriber/distribute",
                        "/subscriber/distribute/{subscriber_id}"}
    /\ r.status_code = 200
    /\ r.body.status = "started"

\* The status query of the surface the job was created on.
StatusOf(job_id) ==
    IF tasks[job_id].fn = "_process_distribution"
    THEN get_distribution_status(job_id)
    ELSE get_subscriber_distribution_status(job_id)

\* The record as a creating handler stores it.
FreshRecord(job, users) ==
    /\ job.status = "running"
    /\ Total(job) = Len(users)
    /\ NothingProcessed(job)

\* C13: the step in which a creating handler returns a job id is the step that
\* stored the record (running, total == len(recipients), counts 0, no results)
\* and scheduled the orchestrator on that list, not yet started; the record is
\* there as long as the orchestrator has not run; and the status query of the
\* same surface never answers not-found for an id a creating call returned.
C13_JobRegisteredBeforeReturn ==
    /\ [](\A j \in DOMAIN tasks :
             /\ j \in (DOMAIN distribution_jobs) \cup (DOMAIN subscriber_distribution_jobs)
             /\ tasks[j].fn = "_process_distribution" <=> j \in DOMAIN distribution_jobs
             /\ tasks[j].fn = "_process_subscriber_distribution"
                    <=> j \in DOMAIN subscriber_distribution_jobs
             /\ tasks[j].pc = "scheduled" => FreshRecord(JobOf(j), tasks[j].users)
             /\ StatusOf(j).status_code = 200
             /\ StatusOf(j).body = JobOf(j))
    /\ [][Started(response') =>
              \E j \in JobIds :
                  /\ j = response'.body.job_id
                  /\ j \notin DOMAIN tasks
                  /\ j \in DOMAIN tasks'
                  /\ tasks'[j].pc = "scheduled"
                  /\ FreshRecord(JobOf(j)', tasks'[j].users)
                  /\ Len(tasks'[j].users) >= 1
                  /\ \A k \in DOMAIN tasks : tasks'[k] = tasks[k] /\ JobOf(k)' = JobOf(k)
         ]_vars

\* a status query right after the creating call, before the orchestrator has run,
\* is answered with the fresh record
C13_Witness ==
    \E j \in AllJobs :
        /\ tasks[j].pc = "scheduled"
        /\ response.status_code = 200
        /\ response.endpoint \in {"/distribution-status", "/subscriber/distribution-status"}
        /\ response = StatusOf(j)
        /\ response.body.processed = 0 /\ response.body.status = "running"

\* The reply of a status query.
StatusReply(r) ==
    r.endpoint \in {"/distribution-status", "/subscriber/distribution-status"}

\* The registry a status endpoint reads.
RegistryOf(endpoint) ==
    IF endpoint = "/distribution-status"
    THEN distribution_jobs
    ELSE subscriber_distribution_jobs

NotFound(r) == r.status_code = 404 /\ r.body = [detail |-> "Job not found"]

\* C14: for every job id, the status query answers 200 with the whole record as it
\* is now when the id is in the registry of its surface, and 404 when it is not;
\* and a step that answers a status query changes no registry, no record and no task.
C14_StatusQuery ==
    /\ [](\A j \in JobIds :
             /\ IF j \in DOMAIN distribution_jobs
                THEN /\ get_distribution_status(j).status_code = 200
                     /\ get_distribution_status(j).body = distribution_jobs[j]
                ELSE NotFound(get_distribution_status(j))
             /\ IF j \in DOMAIN subscriber_distribution_jobs
                THEN /\ get_subscriber_distribution_status(j).status_code = 200
                     /\ get_subscriber_distribution_status(j).body
                            = subscriber_distribution_jobs[j]
                ELSE NotFound(get_subscriber_distribution_status(j)))
    /\ [][StatusReply(response') =>
              /\ UNCHANGED <<distribution_jobs, subscriber_distribution_jobs, tasks>>
              /\ response'.status_code \in {200, 404}
              /\ response'.status_code = 200 =>
                     \E j \in DOMAIN RegistryOf(response'.endpoint) :
                         response'.body = RegistryOf(response'.endpoint)[j]
              /\ response'.status_code = 404 =>
                     /\ NotFound(response')
                     /\ JobIds \ DOMAIN RegistryOf(response'.endpoint) # {}
         ]_vars

\* a query is answered with the record of a job in mid-run: one result so far, still running
C14_Witness ==
    /\ StatusReply(response)
    /\ response.status_code = 200
    /\ \E j \in DOMAIN RegistryOf(response.endpoint) :
           /\ response.body = RegistryOf(response.endpoint)[j]
           /\ response.body.status = "running"
           /\ response.body.processed = 1
           /\ Len(response.body.results) = 1
           /\ tasks[j].pc = "sleeping"

\* C15: from one state to the next no job id leaves a registry, whatever the step
\* is (a job creation, a step of an orchestrator, a status query); only a job
\* creation adds an id, exactly one, and it leaves the record of every job that
\* was there as it was.
C15_RegistryOnlyGrows ==
    [][/\ DOMAIN distribution_jobs \subseteq DOMAIN distribution_jobs'
       /\ DOMAIN subscriber_distribution_jobs \subseteq DOMAIN subscriber_distribution_jobs'
       /\ DOMAIN tasks' = (DOMAIN distribution_jobs') \cup (DOMAIN subscriber_distribution_jobs')
       /\ IF Started(response')
          THEN /\ \A j \in DOMAIN distribution_jobs :
                      distribution_jobs'[j] = distribution_jobs[j]
               /\ \A j \in DOMAIN subscriber_distribution_jobs :
                      subscriber_distribution_jobs'[j] = subscriber_distribution_jobs[j]
               /\ Cardinality(DOMAIN distribution_jobs')
                      + Cardinality(DOMAIN subscriber_distribution_jobs')
                    = Cardinality(DOMAIN distribution_jobs)
                      + Cardinality(DOMAIN subscriber_distribution_jobs) + 1
          ELSE /\ DOMAIN distribution_jobs' = DOMAIN distribution_jobs
               /\ DOMAIN subscriber_distribution_jobs' = DOMAIN subscriber_distribution_jobs
      ]_vars

\* a second job has just been created while the record of a finished one is kept
C15_Witness ==
    /\ Started(response)
    /\ \E j, k \in AllJobs :
           /\ j # k
           /\ response.body.job_id = k
           /\ tasks[k].pc = "scheduled"
           /\ JobOf(j).status = "completed" /\ Len(JobOf(j).results) = 2

\* C16: whatever the interleaving, at most one task moves in a step, a record
\* changes only in a step of its own task, and that step leaves the record and
\* the task of every other job, in either registry, exactly as they were.
C16_JobsAreIsolated ==
    [][\A j \in AllJobs :
          /\ JobOf(j)' # JobOf(j) => tasks'[j] # tasks[j]
          /\ tasks'[j] # tasks[j] =>
                 \A k \in AllJobs \ {j} : JobOf(k)' = JobOf(k) /\ tasks'[k] = tasks[k]
      ]_vars

\* two jobs are in mid-run at once: each has gone through one recipient and
\* is suspended before its second
C16_Witness ==
    \E j, k \in AllJobs :
        /\ j # k
        /\ InLoop(tasks[j]) /\ JobOf(j).processed = 1
        /\ InLoop(tasks[k]) /\ JobOf(k).processed = 1
        /\ JobOf(j).results # JobOf(k).results

\* A status query is answered with this record.
AnsweredWith(job) ==
    /\ GetDistributionStatus \/ GetSubscriberDistributionStatus
    /\ response'.status_code = 200
    /\ response'.body = job

\* A creating call starts a new job.
JobCreated ==
    /\ DistributeHolidayPost \/ DistributeToSubscribers \/ DistributeToSingleSubscriber
    /\ Started(response')

\* C17: every delay is a state of its own task alone.  The step that begins a
\* delay leaves the task suspended in it; and in every state in which a job waits
\* in its delay, that job is in mid-run (0 < processed < total), a status query
\* can be answered with its record as it is, a new job can be created (as long as
\* the model has a job id left), and every other job whose task has not ended can
\* take its next step.
C17_DelaySuspendsOnlyItsTask ==
    /\ [](\A j \in AllJobs :
             tasks[j].pc = "sleeping" =>
                 /\ 0 < JobOf(j).processed
                 /\ JobOf(j).processed < Total(JobOf(j))
                 /\ JobOf(j).status = "running"
                 /\ ENABLED AnsweredWith(JobOf(j))
                 /\ FreshIds # {} => ENABLED JobCreated
                 /\ \A k \in AllJobs \ {j} :
                        tasks[k].pc # "done" => ENABLED TaskStep(k))
    /\ [][\A j \in AllJobs :
              LET old == tasks[j].events
                  new == tasks'[j].events
              IN  (\E p \in (Len(old) + 1)..Len(new) : IsSleep(new[p])) =>
                      /\ tasks'[j].pc = "sleeping"
                      /\ IsSleep(new[Len(new)])
                      /\ JobOf(j)' = JobOf(j) \/ JobOf(j)'.processed < Total(JobOf(j))
         ]_vars

\* while one job waits in its delay a job created after it has run to its end,
\* and a status query has just been answered with the waiting job's record
C17_Witness ==
    \E j, k \in AllJobs :
        /\ j < k
        /\ tasks[j].pc = "sleeping"
        /\ tasks[k].pc = "done" /\ JobOf(k).status = "completed"
        /\ response.endpoint \in {"/distribution-status", "/subscriber/distribution-status"}
        /\ response.status_code = 200
        /\ response.body = JobOf(j)
        /\ response.body.processed = 1 /\ Total(response.body) = 2

IsGeneration(e) == e.op \in {"generate_structured_output", "generate_image"}

\* The generation calls a step has made for a job: the new events of its task.
GenerationCallsOfStep(job_id) ==
    LET old == IF job_id \in DOMAIN tasks THEN tasks[job_id].events ELSE <<>>
        new == tasks'[job_id].events
    IN  { p \in (Len(old) + 1)..Len(new) : IsGeneration(new[p]) }

\* C18: a call of the text or the image generation suspends the calling task, so
\* that other tasks run while it is in progress: a step completes at most one
\* such call, and the step that completes it is the step of a task that was
\* suspended in the call, not the step that starts the task or that creates the job.
C18_GenerationSuspendsOnlyItsTask ==
    [][\A j \in DOMAIN tasks' :
          /\ Cardinality(GenerationCallsOfStep(j)) <= 1
          /\ GenerationCallsOfStep(j) # {} =>
                 j \in DOMAIN tasks /\ tasks[j].pc # "scheduled"
      ]_vars

\* C19: no error ends a background task: a task that has ended has left its
\* job completed or failed, never running.  An error of the content generation
\* is in the record as status failed with its message; an error while a
\* recipient's image is built or delivered is in the record as that recipient's
\* failure result with its message, and every recipient the loop has passed has
\* its result, so none was lost to an error.
C19_ErrorsCaptured ==
    \A j \in AllJobs :
        LET job == JobOf(j)
            t   == tasks[j]
            attempted == { t.events[i].index : i \in Indices(t.events, IsSend) }
        IN  /\ t.pc = "done" => job.status \in {"completed", "failed"}
            /\ job.status = "running" => t.pc \in {"scheduled", "sleeping", "sending"}
            /\ (t.fn = "_process_subscriber_distribution" /\ t.pc # "scheduled") =>
                   /\ (\E i \in DOMAIN t.events : IsGeneration(t.events[i]) /\ t.events[i].raised)
                          => /\ job.status = "failed"
                             /\ "error" \in DOMAIN job
                             /\ job.error[1] = "Image generation failed: "
                             /\ Len(job.error) = 2
                   /\ (\E i \in DOMAIN t.events :
                           /\ t.events[i].op = "generate_structured_output"
                           /\ ~t.events[i].raised /\ t.events[i].prompt = "")
                          => /\ job.status = "failed"
                             /\ "error" \in DOMAIN job
                             /\ job.error = <<"Failed to generate image prompt">>
            /\ job.status = "failed" => GenerationFailed(t)
            /\ Len(job.results) = t.index
            /\ \A i \in 1..t.index :
                   \/ job.results[i].success /\ (i - 1) \in attempted
                   \/ /\ ~job.results[i].success
                      /\ job.results[i].error \in {"compositing error", "delivery error"}
                      /\ job.results[i].error = "delivery error" <=> (i - 1) \in attempted
            /\ \A i \in attempted : i < t.index \/ (i = t.index /\ t.pc = "sending")

\* one job has failed on a generation call that raised; another has completed
\* with the image of its first recipient failing and the delivery to its second failing
C19_Witness ==
    \E j, k \in AllJobs :
        /\ JobOf(j).status = "failed" /\ tasks[j].events[1].raised
        /\ JobOf(k).status = "completed" /\ Len(JobOf(k).results) = 2
        /\ ~JobOf(k).results[1].success /\ JobOf(k).results[1].error = "compositing error"
        /\ ~JobOf(k).results[2].success /\ JobOf(k).results[2].error = "delivery error"

\* C20: a job that is running always has a task with a next step to take; so,
\* with every ready task run in the end, every delay elapsing and every
\* collaborator call returning or raising, each job that is created leaves
\* status running and reaches completed or failed.
C20_EveryJobEnds ==
    /\ [](\A j \in AllJobs : JobOf(j).status = "running" => ENABLED TaskStep(j))
    /\ \A j \in JobIds :
           [](j \in AllJobs =>
                  <>(j \in AllJobs /\ JobOf(j).status \in {"completed", "failed"}))

\* both jobs of a run have ended, one over two recipients with a delay in between
C20_Witness ==
    /\ AllJobs = JobIds
    /\ \A j \in AllJobs : tasks[j].pc = "done" /\ JobOf(j).status \in {"completed", "failed"}
    /\ \E j \in AllJobs : Len(tasks[j].users) = 2 /\ Sleeps(tasks[j]) = 1

\* The webhook calls that did not succeed: no response in time, or a response
\* whose status code is not a success code.
NonSuccess(outcome) == outcome.timed_out \/ outcome.status_code >= 400

\* C21: send_to_whatsapp raises on every non-success outcome of the webhook call
\* (a timeout or a non-success response) and returns the webhook's response only
\* on success: in no job does a result record success == true for a call whose
\* outcome was a non-success one (the api_response of a success result is never
\* the body of a non-success response).
C21_NonSuccessRecordedAsFailure ==
    \A j \in AllJobs :
        \A i \in DOMAIN JobOf(j).results :
            LET r == JobOf(j).results[i]
            IN  r.success =>
                    \A outcome \in WebhookOutcomes :
                        (~outcome.timed_out /\ outcome.json = r.api_response)
                            => ~NonSuccess(outcome)

\* The delivery calls a task has made, in the order it made them.
Sends(t) == SelectSeq(t.events, IsSend)

\* C22: within one job send_to_whatsapp is called at most once per recipient and
\* in list order (the indices of the calls strictly increase, each call goes to the
\* phone of the recipient at its index), a failed delivery is not called again,
\* and the call for a recipient is made only when every earlier recipient has its
\* result recorded: while a call is outstanding it is the last one made and
\* exactly the recipients before it have results, otherwise every call made has
\* its result.
C22_OneSendPerRecipientInOrder ==
    \A j \in AllJobs :
        LET t == tasks[j]
            job == JobOf(j)
            sends == Sends(t)
        IN  /\ \A a, b \in DOMAIN sends : a < b => sends[a].index < sends[b].index
            /\ \A a \in DOMAIN sends :
                   /\ sends[a].index + 1 \in DOMAIN t.users
                   /\ sends[a].phone = t.users[sends[a].index + 1].phone
                   /\ Len(job.results) >= sends[a].index
                   /\ (a < Len(sends) \/ t.pc # "sending")
                          => /\ Len(job.results) > sends[a].index
                             /\ job.results[sends[a].index + 1].phone = sends[a].phone
            /\ t.pc = "sending"
                   => /\ sends # <<>>
                      /\ sends[Len(sends)].index = t.index
                      /\ Len(job.results) = t.index

\* a job over two recipients has ended: the first delivery raised, and each of the
\* two recipients was called exactly once
C22_Witness ==
    \E j \in AllJobs :
        /\ tasks[j].pc = "done" /\ Len(tasks[j].users) = 2
        /\ Len(Sends(tasks[j])) = 2
        /\ Len(JobOf(j).results) = 2
        /\ ~JobOf(j).results[1].success
        /\ JobOf(j).results[1].error = "delivery error"

IsText(e) == e.op = "generate_structured_output"
IsImage(e) == e.op = "generate_image"
TextCalls(t) == SelectSeq(t.events, IsText)
ImageCalls(t) == SelectSeq(t.events, IsImage)

\* Every delivery call of the task carries the caption the text call returned and
\* the image the image call returned.
SameContentForAll(t) ==
    \A i \in Indices(t.events, IsSend) :
        /\ Len(TextCalls(t)) = 1 /\ Len(ImageCalls(t)) = 1
        /\ ~TextCalls(t)[1].raised /\ ~ImageCalls(t)[1].raised
        /\ t.events[i].caption = TextCalls(t)[1].caption
        /\ t.events[i].base_image = generate_image([has_image |-> TRUE]).value

\* C23 as stated: every distribution run that has started has made exactly one
\* text-generation call and exactly one image-generation call, and every delivery
\* of the run carries that caption and that base image.
C23_Original ==
    \A j \in AllJobs :
        LET t == tasks[j]
        IN  /\ t.pc # "scheduled" => Len(TextCalls(t)) = 1 /\ Len(ImageCalls(t)) = 1
            /\ SameContentForAll(t)

\* C23: content is generated at most once per distribution run, whatever the number
\* of recipients and their outcomes: a run that has started has made exactly one
\* text-generation call, and exactly one image-generation call if that text call
\* returned a non-empty prompt and none otherwise (the text call comes first); a
\* run that attempts any recipient has made exactly one call of each, and every
\* delivery of the run carries the caption and the base image those calls returned.
C23_ContentGeneratedOnce ==
    \A j \in AllJobs :
        LET t == tasks[j]
            texts == TextCalls(t)
            images == ImageCalls(t)
        IN  /\ Len(texts) <= 1 /\ Len(images) <= 1
            /\ t.pc # "scheduled" => Len(texts) = 1 /\ IsText(t.events[1])
            /\ Len(images) = 1
                   <=> /\ Len(texts) = 1
                       /\ ~texts[1].raised
                       /\ texts[1].prompt # ""
            /\ Len(images) = 1 => IsImage(t.events[2])
            /\ SameContentForAll(t)

\* a run over two recipients has ended with one text call, one image call and two
\* deliveries, one failed and one successful, both with the (empty) caption returned
C23_Witness ==
    \E j \in DOMAIN subscriber_distribution_jobs :
        LET t == tasks[j]
            job == subscriber_distribution_jobs[j]
        IN  /\ t.pc = "done" /\ Len(t.users) = 2
            /\ Len(TextCalls(t)) = 1 /\ Len(ImageCalls(t)) = 1
            /\ TextCalls(t)[1].caption = ""
            /\ Len(Sends(t)) = 2
            /\ \A i \in 1..2 : Sends(t)[i].caption = ""
            /\ job.successful = 1 /\ job.failed = 1

\* C24: when the lookup finds no holiday for today and the request names none,
\* POST /generate-post answers 404 and has called neither the text model, nor the
\* image model, nor the webhook, whatever those would have answered; and a 404 of
\* that endpoint is always an answer given without any such call.
C24_NoHolidayNoCalls ==
    /\ \A text_reply \in AnyTextReplies, image_reply \in ImageReplies,
          overlay_ok \in BOOLEAN, outcome \in WebhookOutcomes :
           LET r == generate_post(None, None, text_reply, image_reply, overlay_ok, outcome)
           IN  /\ r.response.status_code = 404
               /\ r.calls = <<>>
    /\ response.endpoint = "/generate-post"
           => (response.status_code = 404 <=> handler_calls = <<>>)

\* a request without a holiday has just been answered 404, no collaborator called
C24_Witness ==
    /\ response = HTTPException("/generate-post", 404,
                      "No holiday found for today and no holiday parameter provided")
    /\ handler_calls = <<>>

\* The text call gave no usable content: it raised (unparseable reply), or one of
\* the two fields of the reply is empty.
NoContent(e) == e.raised \/ e.prompt = "" \/ e.caption = ""

\* C25: content generation fails whenever the reply of the text model is
\* unparseable or its prompt or its caption is empty: a distribution run with such
\* a reply is marked failed and calls the webhook for no recipient, and a
\* POST /generate-post with such a reply is answered with an error, having called
\* neither the image model nor the webhook.
C25_EmptyFieldFailsGeneration ==
    /\ \A j \in AllJobs :
           LET t == tasks[j]
           IN  \A i \in Indices(t.events, IsText) :
                   NoContent(t.events[i])
                       => /\ JobOf(j).status = "failed"
                          /\ Indices(t.events, IsSend) = {}
                          /\ JobOf(j).results = <<>>
    /\ response.endpoint = "/generate-post"
           => \A i \in Indices(handler_calls, IsText) :
                  NoContent(handler_calls[i])
                      => /\ response.status_code >= 400
                         /\ Indices(handler_calls, IsImage) = {}
                         /\ Indices(handler_calls, IsSend) = {}

IsImageOpen(e) == e.op = "Image.open"
IsRepositoryWrite(e) ==
    e.op \in {"collection.insert_one", "SubscriberRepository.create",
              "SubscriberRepository.update", "HolidayRepository.update"}

\* C26: a request that fails validation (an upload that Image.open rejects, on
\* POST /addsubscriber, POST /subscriber or PUT /subscriber/{subscriber_id}, or a
\* holiday update with no field provided) is answered 400 and has made no
\* repository write.
C26_ValidationRejectsBeforeWrite ==
    /\ response.endpoint \in {"/addsubscriber", "/subscriber", "/subscriber/{subscriber_id}"}
           => \A i \in Indices(handler_calls, IsImageOpen) :
                  handler_calls[i].raised
                      => /\ response.status_code = 400
                         /\ Indices(handler_calls, IsRepositoryWrite) = {}
    /\ response.endpoint = "/holidays/{holiday_id}"
           => (Indices(handler_calls, IsRepositoryWrite) = {} <=> response.status_code = 400)
    /\ \A update_ok \in BOOLEAN :
           LET r == update_holiday({}, update_ok)
           IN  r.response.status_code = 400 /\ r.calls = <<>>

\* C27: the handler that creates a job returns "started" and the job id with the
\* orchestrator only scheduled: in the state in which it has returned the task of
\* that job has not begun and no delivery of the job has been made; a delivery is
\* only ever made by a later step of the job's own task, never by a handler; and
\* after the handler has returned the task keeps running (it always has a next
\* step while the job is running) until the job is completed or failed.
C27_HandlerReturnsBeforeOrchestrator ==
    /\ [][Started(response') =>
              \E j \in JobIds :
                  /\ j = response'.body.job_id
                  /\ j \in AllJobs'
                  /\ tasks'[j].pc = "scheduled"
                  /\ Sends(tasks'[j]) = <<>>
                  /\ JobOf(j)'.status = "running"
                  /\ JobOf(j)'.processed = 0 /\ JobOf(j)'.results = <<>>
         ]_vars
    /\ [][\A j \in AllJobs' :
              Len(Sends(tasks'[j])) > (IF j \in AllJobs THEN Len(Sends(tasks[j])) ELSE 0)
                  => /\ j \in AllJobs
                     /\ tasks[j].pc # "done"
                     /\ response' = NoResponse /\ handler_calls' = <<>>
         ]_vars
    /\ [](\A j \in AllJobs : JobOf(j).status = "running" => ENABLED RequestTaskStep(j))
    /\ \A j \in JobIds :
           [](j \in AllJobs =>
                  <>(/\ j \in AllJobs
                     /\ tasks[j].pc = "done"
                     /\ JobOf(j).status \in {"completed", "failed"}))

\* the creating handler has just returned: the job is registered and running, its
\* task scheduled over two recipients, nothing delivered
C27_Witness ==
    /\ Started(response)
    /\ \E j \in AllJobs :
           /\ j = response.body.job_id
           /\ tasks[j].pc = "scheduled" /\ Len(tasks[j].users) = 2
           /\ Sends(tasks[j]) = <<>>
           /\ JobOf(j).status = "running"

CreatingEndpoints ==
    {"/distribute-holiday-post", "/subscriber/distribute",
     "/subscriber/distribute/{subscriber_id}"}

\* The answers of a creating handler that found no holiday or nobody to send to:
\* the dict {"status": "error", ...}, or the 404 for the one subscriber asked for.
NothingToDistribute(r) ==
    /\ r.endpoint \in CreatingEndpoints
    /\ \/ r.status_code = 200 /\ r.body.status = "error"
       \/ r.status_code = 404

\* C28: a distribution request that finds no holiday for today, or nobody to send
\* to, is answered with an error reply and changes nothing: both registries and
\* the scheduled tasks are as before and no generation or delivery call has been
\* made.  A request creates a job only with a non-empty list (any other answer
\* leaves registries and tasks unchanged), hence every job record has total >= 1.
C28_NothingToDistributeChangesNothing ==
    /\ [][response'.endpoint \in CreatingEndpoints =>
              /\ NothingToDistribute(response')
                     => /\ UNCHANGED <<distribution_jobs, subscriber_distribution_jobs, tasks>>
                        /\ handler_calls' = <<>>
                        /\ response'.status_code = 200
                               => response'.body.message \in
                                      {"No holiday found for today",
                                       "No users found in database",
                                       "No subscribers found in database"}
                        /\ response'.status_code = 404
                               => /\ response'.endpoint = "/subscriber/distribute/{subscriber_id}"
                                  /\ response'.body.detail = "Subscriber not found"
              /\ ~Started(response')
                     => UNCHANGED <<distribution_jobs, subscriber_distribution_jobs, tasks>>
              /\ Started(response')
                     => \E j \in JobIds :
                            /\ j = response'.body.job_id
                            /\ AllJobs' = AllJobs \cup {j} /\ j \notin AllJobs
                            /\ Len(tasks'[j].users) >= 1
         ]_vars
    /\ [](\A j \in AllJobs :
             /\ Total(JobOf(j)) >= 1
             /\ Total(JobOf(j)) = Len(tasks[j].users))

\* with a job in the registry, a request that found no subscribers has just been
\* answered with the error reply
C28_Witness ==
    /\ AllJobs # {}
    /\ response = Reply("/subscriber/distribute",
                        [status |-> "error", message |-> "No subscribers found in database"])
    /\ handler_calls = <<>>

\* C29: a job created by /distribute-holiday-post never has status failed: its
\* content is generated in the handler before the record exists, so the record is
\* only ever created with both generation calls made and successful, a generation
\* failure of that handler is answered with an error (500) that leaves registries
\* and tasks unchanged, and the status of such a job is running or completed.
C29_UserJobsNeverFail ==
    /\ [](\A j \in DOMAIN distribution_jobs :
             LET t == tasks[j]
             IN  /\ distribution_jobs[j].status \in {"running", "completed"}
                 /\ "error" \notin DOMAIN distribution_jobs[j]
                 /\ Len(TextCalls(t)) = 1 /\ Len(ImageCalls(t)) = 1
                 /\ ~TextCalls(t)[1].raised /\ TextCalls(t)[1].prompt # ""
                 /\ ~ImageCalls(t)[1].raised
                 /\ IsText(t.events[1]) /\ IsImage(t.events[2]))
    /\ [][response'.endpoint = "/distribute-holiday-post" =>
              LET failed_call(e) == IsGeneration(e) /\ (e.raised \/ (IsText(e) /\ e.prompt = ""))
              IN  /\ (\E i \in DOMAIN handler_calls' : failed_call(handler_calls'[i]))
                         <=> response'.status_code = 500
                  /\ response'.status_code = 500
                         => UNCHANGED <<distribution_jobs, subscriber_distribution_jobs, tasks>>
                  /\ Started(response')
                         => /\ response'.body.job_id \notin DOMAIN distribution_jobs
                            /\ handler_calls' = tasks'[response'.body.job_id].events
         ]_vars

\* one request to /distribute-holiday-post has created a job, which has completed,
\* and another has just been answered 500 for a generation failure
C29_Witness ==
    /\ response.endpoint = "/distribute-holiday-post" /\ response.status_code = 500
    /\ DOMAIN distribution_jobs # {}
    /\ \A j \in DOMAIN distribution_jobs : distribution_jobs[j].status = "completed"

\* C30: in every state of every job record completed_at is present exactly when
\* status is completed and error exactly when status is failed; started_at is
\* there from creation, holds the time of creation, and no step changes it (nor
\* removes the record).
C30_TimestampsFollowStatus ==
    /\ [](\A j \in AllJobs :
             LET job == JobOf(j)
             IN  /\ "completed_at" \in DOMAIN job <=> job.status = "completed"
                 /\ "error" \in DOMAIN job <=> job.status = "failed"
                 /\ "started_at" \in DOMAIN job
                 /\ job.started_at = Timestamp("created")
                 /\ "completed_at" \in DOMAIN job => job.completed_at = Timestamp("completed"))
    /\ [][\A j \in AllJobs :
              /\ j \in AllJobs'
              /\ JobOf(j)'.started_at = JobOf(j).started_at
         ]_vars

\* one job has completed and carries completed_at, another has failed and carries
\* error; both still carry the started_at of their creation
C30_Witness ==
    \E j, k \in AllJobs :
        /\ JobOf(j).status = "completed" /\ "completed_at" \in DOMAIN JobOf(j)
        /\ JobOf(j).processed = 2
        /\ JobOf(k).status = "failed" /\ "error" \in DOMAIN JobOf(k)
        /\ JobOf(j).started_at = Timestamp("created")
        /\ JobOf(k).started_at = Timestamp("created")

\* Recipients from + 1 .. i all fail to have their image built, so a loop entered
\* at position from reaches recipient i without suspending.
BuildFailsUpTo(overlay_ok, from, i) == \A k \in (from + 1)..i : ~overlay_ok[k]

IsWaitOrSend(e) == IsSleep(e) \/ IsSend(e)

\* r is what a step of the loop entered at position from gives under overlay_ok:
\* every recipient the step found unbuildable has a failure result with an error
\* text at their place, no wait and no delivery call was made for them, and the
\* loop went on: to the next recipient whose image builds, or to its end.
BuildFailureHandled(r, users, overlay_ok, from) ==
    \A i \in (from + 1)..Len(users) :
        BuildFailsUpTo(overlay_ok, from, i) =>
            /\ Len(r.job.results) >= i
            /\ Failed(r.job.results[i])
            /\ "error" \in DOMAIN r.job.results[i]
            /\ ResultId(r.job.results[i]) = users[i].id
            /\ r.job.failed >= i - from
            /\ \A n \in DOMAIN r.task.events :
                   IsWaitOrSend(r.task.events[n]) => r.task.events[n].index # i - 1
            /\ IF i = Len(users)
               THEN /\ r.task.pc = "done"
                    /\ r.job.status = "completed"
                    /\ r.job.processed = Len(users)
               ELSE overlay_ok[i + 1] =>
                        /\ InLoop(r.task)
                        /\ r.task.index = i
                        /\ \E n \in DOMAIN r.task.events :
                               /\ IsWaitOrSend(r.task.events[n])
                               /\ r.task.events[n].index = i

\* C31: when building a recipient's personalized image raises, that recipient gets
\* a failure result, the delivery client is not called for them, their stagger
\* delay is not awaited, and the loop continues with the next recipient.  Checked
\* on every step either orchestrator can take from a state it can be in, for every
\* way the builds of the recipients still to come can end.
C31_BuildFailureSkipsDelivery ==
    \A j \in AllJobs :
        LET job == JobOf(j)
            t   == tasks[j]
        IN  /\ (j \in DOMAIN distribution_jobs /\ t.pc = "scheduled") =>
                   \A overlay_ok \in OverlayOutcomes(t, 0),
                      delay_seconds \in randint(UserDelayMin, UserDelayMax) :
                       BuildFailureHandled(
                           process_distribution_from(job, t, overlay_ok, delay_seconds),
                           t.users, overlay_ok, 0)
            /\ (j \in DOMAIN distribution_jobs /\ t.pc = "sending") =>
                   \A outcome \in SendOutcomes,
                      overlay_ok \in OverlayOutcomes(t, t.index + 1),
                      delay_seconds \in randint(UserDelayMin, UserDelayMax) :
                       BuildFailureHandled(
                           process_distribution_sent(job, t, outcome, overlay_ok, delay_seconds),
                           t.users, overlay_ok, t.index + 1)
            /\ (j \in DOMAIN subscriber_distribution_jobs /\ t.pc = "scheduled") =>
                   \A text_reply \in AnyTextReplies, image_reply \in ImageReplies,
                      overlay_ok \in OverlayOutcomes(t, 0),
                      delay_seconds \in randint(SubscriberDelayMin, SubscriberDelayMax) :
                       LET r == process_subscriber_distribution_start(
                                    job, t, text_reply, image_reply, overlay_ok, delay_seconds)
                       IN  r.job.status # "failed" =>
                               BuildFailureHandled(r, t.users, overlay_ok, 0)
            /\ (j \in DOMAIN subscriber_distribution_jobs /\ t.pc = "sending") =>
                   \A outcome \in SendOutcomes,
                      overlay_ok \in OverlayOutcomes(t, t.index + 1),
                      delay_seconds \in randint(SubscriberDelayMin, SubscriberDelayMax) :
                       BuildFailureHandled(
                           process_subscriber_distribution_sent(
                               job, t, outcome, overlay_ok, delay_seconds),
                           t.users, overlay_ok, t.index + 1)

\* the image of the first of two recipients could not be built: they have a failure
\* result and no wait or delivery call, and the task is in the wait for the second
C31_Witness ==
    \E j \in AllJobs :
        LET job == JobOf(j)
            t   == tasks[j]
        IN  /\ Len(t.users) = 2
            /\ t.pc = "sleeping" /\ t.index = 1
            /\ Len(job.results) = 1
            /\ Failed(job.results[1]) /\ job.results[1].error = "compositing error"
            /\ \A n \in DOMAIN t.events :
                   IsWaitOrSend(t.events[n]) => t.events[n].index = 1

\* The jobs created on each surface: the handler schedules the orchestrator of its
\* own module for the id it has just drawn.
UserJobs == { j \in AllJobs : tasks[j].fn = "_process_distribution" }
SubscriberJobs == { j \in AllJobs : tasks[j].fn = "_process_subscriber_distribution" }

\* C32: the two registries are disjoint.  A job created by /distribute-holiday-post
\* is in distribution_jobs only and /subscriber/distribution-status answers 404 for
\* its id; a job created by /subscriber/distribute or /subscriber/distribute/{id} is
\* in subscriber_distribution_jobs only and /distribution-status answers 404 for its
\* id; and a step of an orchestrator changes no record of the other registry.
C32_RegistriesDisjoint ==
    /\ [](/\ DOMAIN distribution_jobs = UserJobs
          /\ DOMAIN subscriber_distribution_jobs = SubscriberJobs
          /\ (DOMAIN distribution_jobs) \cap (DOMAIN subscriber_distribution_jobs) = {}
          /\ \A j \in UserJobs :
                 /\ get_distribution_status(j).status_code = 200
                 /\ NotFound(get_subscriber_distribution_status(j))
          /\ \A j \in SubscriberJobs :
                 /\ get_subscriber_distribution_status(j).status_code = 200
                 /\ NotFound(get_distribution_status(j)))
    /\ [][\A j \in AllJobs :
              tasks'[j] # tasks[j] =>
                  /\ j \in UserJobs =>
                         subscriber_distribution_jobs' = subscriber_distribution_jobs
                  /\ j \in SubscriberJobs =>
                         distribution_jobs' = distribution_jobs
                  /\ tasks'[j].fn = tasks[j].fn
         ]_vars

\* a job of each surface has gone through a recipient, and the subscriber surface
\* has just answered 404 to a status query: both ids being taken, for the user job
C32_Witness ==
    \E j \in UserJobs, k \in SubscriberJobs :
        /\ distribution_jobs[j].processed >= 1
        /\ subscriber_distribution_jobs[k].processed >= 1
        /\ AllJobs = JobIds
        /\ response = get_subscriber_distribution_status(j)
        /\ NotFound(response)

====
